---------------------------- MODULE Spec2Model ----------------------------
(***************************************************************************)
(* State-machine model of the scam-honeypot turn pipeline:                 *)
(*   app/risk_engine.py         SessionState, CumulativeRiskEngine         *)
(*   app/scam_detector.py       HybridScamDetector, LLMReasoningJudge      *)
(*   app/agent_controller.py    SafetyValidator, AgentController           *)
(*   app/intelligence_extractor.py  IntelligenceExtractor                  *)
(*   app/callback_client.py     send_final_result_with_retry               *)
(*   app/main.py                chat_handler                               *)
(*                                                                         *)
(* Confidences are integers in thousandths (0.7 is 700).  A session is a   *)
(* record; every method of SessionState is an operator from the record     *)
(* before the call to the record after it.                                 *)
(***************************************************************************)
EXTENDS Integers, Sequences, FiniteSets, TLC

VARIABLES
    sessions,            \* risk_engine.sessions: session id -> SessionState
    extraction_history,  \* intelligence_extractor.extraction_history
    turn_counter,        \* intelligence_extractor.turn_counter
    reqs,                \* chat_handler coroutines suspended in the judge call
    tasks,               \* send_final_result_with_retry tasks in flight
    out,                 \* the last response returned to a caller
    delivered,           \* reports the evaluation endpoint acknowledged
    env,                 \* the environment: GROQ key present, messages sent
    remaining            \* inbound calls the environment still makes

vars == << sessions, extraction_history, turn_counter, reqs, tasks, out,
           delivered, env, remaining >>

----------------------------------------------------------------------------
(* Bounds of the model.                                                    *)

MaxCalls == 4

----------------------------------------------------------------------------
(* risk_engine.py: ScamStage and the stage order.                          *)

NoValue == "None"

stage_priority ==
    << "NORMAL", "HOOK", "TRUST", "THREAT", "ACTION", "CONFIRMED" >>

ScamStage == { stage_priority[i] : i \in 1..Len(stage_priority) }

StageIndex(stage) ==
    CHOOSE i \in 1..Len(stage_priority) : stage_priority[i] = stage

RISK_MAX == 100
THRESHOLD_SUSPICIOUS == 25
THRESHOLD_THREAT == 50
THRESHOLD_CONFIRMED == 70

Min(a, b) == IF a <= b THEN a ELSE b

(* The intents a question is counted under: the keys of                    *)
(* SEMANTIC_INTENT_MAP, generic, and acknowledgment.                       *)
QuestionIntents ==
    { "identity_verification", "payment_method", "next_action_step",
      "contact_method", "delay_excuse", "account_details", "app_or_link",
      "generic", "acknowledgment" }

(* SessionState.__init__; locked_language to stall_counter are the agent   *)
(* memory the reply generator keeps on the session, lock_log the number of *)
(* "Language locked to" lines chat_handler has printed for it.             *)
NewSession ==
    [ risk_score          |-> 0,
      scam_stage          |-> "NORMAL",
      scam_detected       |-> FALSE,
      hard_rule_triggered |-> FALSE,
      turn_count          |-> 0,
      triggered_signals   |-> << >>,
      llm_judgements      |-> << >>,
      upi_ids             |-> {},
      bank_accounts       |-> {},
      phone_numbers       |-> {},
      phishing_links      |-> {},
      suspicious_keywords |-> {},
      mission_complete    |-> FALSE,
      callback_sent       |-> FALSE,
      stage_history       |-> << >>,
      locked_language     |-> NoValue,
      conversation_turns  |-> << >>,
      asked_questions     |-> [ i \in QuestionIntents |-> 0 ],
      recent_questions    |-> << >>,
      stall_counter       |-> 0,
      lock_log            |-> 0 ]

(* SessionState._transition_stage: log (old stage, turn) and move.         *)
transition_stage(st, new_stage) ==
    [ st EXCEPT !.stage_history = Append(@, << st.scam_stage, st.turn_count >>),
                !.scam_stage    = new_stage ]

(* Variant of _check_risk_thresholds whose middle band tests only          *)
(* "stage is not THREAT".                                                  *)
check_risk_thresholds_only_threat(st) ==
    IF st.risk_score >= THRESHOLD_CONFIRMED
    THEN [ (IF st.scam_stage # "CONFIRMED"
            THEN transition_stage(st, "CONFIRMED") ELSE st)
           EXCEPT !.scam_detected = TRUE ]
    ELSE IF st.risk_score >= THRESHOLD_THREAT
    THEN IF st.scam_stage # "THREAT"
         THEN transition_stage(st, "THREAT") ELSE st
    ELSE IF st.risk_score >= THRESHOLD_SUSPICIOUS
    THEN IF st.scam_stage = "NORMAL"
         THEN transition_stage(st, "HOOK") ELSE st
    ELSE st

(* SessionState._check_risk_thresholds.                                    *)
check_risk_thresholds(st) ==
    IF st.risk_score >= THRESHOLD_CONFIRMED
    THEN [ (IF st.scam_stage # "CONFIRMED"
            THEN transition_stage(st, "CONFIRMED") ELSE st)
           EXCEPT !.scam_detected = TRUE ]
    ELSE IF st.risk_score >= THRESHOLD_THREAT
    THEN IF st.scam_stage \notin { "THREAT", "ACTION", "CONFIRMED" }
         THEN transition_stage(st, "THREAT") ELSE st
    ELSE IF st.risk_score >= THRESHOLD_SUSPICIOUS
    THEN IF st.scam_stage = "NORMAL"
         THEN transition_stage(st, "HOOK") ELSE st
    ELSE st

(* Variants of add_risk: no clamp; assignment instead of accumulation;     *)
(* no threshold check after the addition.                                  *)
add_risk_unclamped(st, score) ==
    check_risk_thresholds([ st EXCEPT !.risk_score = st.risk_score + score ])

add_risk_assigns(st, score) ==
    check_risk_thresholds([ st EXCEPT !.risk_score = Min(score, RISK_MAX) ])

add_risk_no_thresholds(st, score) ==
    [ st EXCEPT !.risk_score = Min(st.risk_score + score, RISK_MAX) ]

(* SessionState.add_risk: cumulative, clamped to 100, then the thresholds. *)
add_risk(st, score) ==
    check_risk_thresholds(
        [ st EXCEPT !.risk_score = Min(st.risk_score + score, RISK_MAX) ])

(* SessionState.trigger_hard_rule.                                         *)
trigger_hard_rule(st, score) ==
    LET latched == [ st EXCEPT !.hard_rule_triggered = TRUE,
                               !.scam_detected       = TRUE ]
        added   == add_risk(latched, score)
    IN  IF added.scam_stage \notin { "ACTION", "CONFIRMED" }
        THEN transition_stage(added, "ACTION") ELSE added

(* Variant of add_signal that logs and scores a hard-rule signal without   *)
(* calling trigger_hard_rule.                                              *)
add_signal_without_trigger(st, signal) ==
    add_risk([ st EXCEPT !.triggered_signals = Append(@, signal) ],
             signal.score)

(* Variant of add_signal that passes the signal's score to the hard-rule   *)
(* trigger as well.                                                        *)
add_signal_scores_twice(st, signal) ==
    LET logged == [ st EXCEPT !.triggered_signals = Append(@, signal) ]
        added  == add_risk(logged, signal.score)
    IN  IF signal.is_hard_rule
        THEN trigger_hard_rule(added, signal.score) ELSE added

(* SessionState.add_signal.                                                *)
add_signal(st, signal) ==
    LET logged == [ st EXCEPT !.triggered_signals = Append(@, signal) ]
        added  == add_risk(logged, signal.score)
    IN  IF signal.is_hard_rule THEN trigger_hard_rule(added, 0) ELSE added

(* Variant of add_llm_judgement that follows the suggested stage whatever  *)
(* the judgement's confidence.                                             *)
add_llm_judgement_any_confidence(st, judgement) ==
    LET logged  == [ st EXCEPT !.llm_judgements = Append(@, judgement) ]
        boosted == IF judgement.risk_boost > 0
                   THEN add_risk(logged, judgement.risk_boost) ELSE logged
        staged  == IF /\ judgement.stage_suggestion # NoValue
                      /\ StageIndex(judgement.stage_suggestion)
                           > StageIndex(boosted.scam_stage)
                   THEN transition_stage(boosted, judgement.stage_suggestion)
                   ELSE boosted
    IN  IF judgement.is_scam_likely /\ judgement.confidence >= 850
        THEN [ staged EXCEPT !.scam_detected = TRUE ] ELSE staged

(* SessionState.add_llm_judgement.  stage_suggestion is NoValue for None.  *)
add_llm_judgement(st, judgement) ==
    LET logged  == [ st EXCEPT !.llm_judgements = Append(@, judgement) ]
        boosted == IF judgement.risk_boost > 0
                   THEN add_risk(logged, judgement.risk_boost) ELSE logged
        staged  == IF /\ judgement.stage_suggestion # NoValue
                      /\ judgement.confidence >= 700
                      /\ StageIndex(judgement.stage_suggestion)
                           > StageIndex(boosted.scam_stage)
                   THEN transition_stage(boosted, judgement.stage_suggestion)
                   ELSE boosted
    IN  IF judgement.is_scam_likely /\ judgement.confidence >= 850
        THEN [ staged EXCEPT !.scam_detected = TRUE ] ELSE staged

(* SessionState.update_stage_from_patterns: pattern -> minimum stage.      *)
pattern_stage_map ==
    [ greeting        |-> "HOOK",   introduction |-> "HOOK",
      authority_claim |-> "HOOK",   verification |-> "TRUST",
      procedure       |-> "TRUST",  credibility  |-> "TRUST",
      urgency         |-> "THREAT", consequence  |-> "THREAT",
      fear            |-> "THREAT", payment_request |-> "ACTION",
      otp_request     |-> "ACTION", link_share   |-> "ACTION" ]

RECURSIVE update_stage_from_patterns(_, _)
update_stage_from_patterns(st, detected_patterns) ==
    IF detected_patterns = << >> THEN st
    ELSE LET pattern == Head(detected_patterns)
             next ==
               IF /\ pattern \in DOMAIN pattern_stage_map
                  /\ StageIndex(pattern_stage_map[pattern])
                       > StageIndex(st.scam_stage)
               THEN transition_stage(st, pattern_stage_map[pattern])
               ELSE st
         IN  update_stage_from_patterns(next, Tail(detected_patterns))

(* SessionState.has_high_value_intel.                                      *)
has_high_value_intel(st) ==
    \/ st.upi_ids # {}
    \/ st.bank_accounts # {}
    \/ (st.phone_numbers # {} /\ st.phishing_links # {})

ActionSignalTypes == { "financial", "otp_request", "payment_request" }

CountActionSignals(signals) ==
    Cardinality({ i \in 1..Len(signals) :
                    signals[i].signal_type \in ActionSignalTypes })

MIN_TURNS == 5
REPEATED_DEMANDS == 3
MAX_MISSION_TURNS == 25

(* Variant of the returned value whose turn-cap branch does not depend on  *)
(* scam_detected.                                                          *)
mission_complete_result_cap_first(st) ==
    \/ st.mission_complete
    \/ st.turn_count >= MAX_MISSION_TURNS
    \/ /\ st.scam_detected
       /\ has_high_value_intel(st)
       /\ \/ st.turn_count >= MIN_TURNS
          \/ CountActionSignals(st.triggered_signals) >= REPEATED_DEMANDS

(* SessionState.check_mission_complete: the value returned ...             *)
mission_complete_result(st) ==
    \/ st.mission_complete
    \/ /\ st.scam_detected
       /\ \/ /\ has_high_value_intel(st)
             /\ \/ st.turn_count >= MIN_TURNS
                \/ CountActionSignals(st.triggered_signals) >= REPEATED_DEMANDS
          \/ st.turn_count >= MAX_MISSION_TURNS

(* ... and the session after the call (the flag is set when it is true).   *)
check_mission_complete(st) ==
    IF mission_complete_result(st)
    THEN [ st EXCEPT !.mission_complete = TRUE ] ELSE st

----------------------------------------------------------------------------
(* Inputs of the engine interface: signals the rule catalog and the ML     *)
(* ladder can produce, judgements the judge can return, pattern lists.     *)

Signal(type, name, score, hard, source, turn) ==
    [ signal_type |-> type, signal_name |-> name, score |-> score,
      is_hard_rule |-> hard, source |-> source, turn_number |-> turn ]

EngineSignals(turn) ==
    { Signal("otp_request", "otp_share_request", 35, TRUE, "rule", turn),
      Signal("financial", "upi_pin_request", 40, TRUE, "rule", turn),
      Signal("financial", "fee_request", 28, TRUE, "rule", turn),
      Signal("urgency", "medium_urgency", 9, FALSE, "rule", turn),
      Signal("threat", "legal_threat", 44, FALSE, "rule", turn),
      Signal("ml_detection", "ml_classifier", 25, FALSE, "ml", turn) }

Judgement(turn, likely, confidence, boost, stage) ==
    [ turn_number |-> turn, is_scam_likely |-> likely,
      confidence |-> confidence, risk_boost |-> boost,
      stage_suggestion |-> stage ]

EngineJudgements(turn) ==
    { Judgement(turn, FALSE, 500, 0, NoValue),
      Judgement(turn, TRUE, 600, 5, "ACTION"),
      Judgement(turn, TRUE, 700, 15, "HOOK"),
      Judgement(turn, FALSE, 800, 10, "ACTION"),
      Judgement(turn, TRUE, 900, 30, "CONFIRMED"),
      Judgement(turn, TRUE, 750, 0, "CONFIRMED"),
      Judgement(turn, TRUE, 900, 0, "THREAT") }

EnginePatterns ==
    { << "greeting", "deadline" >>, << "verification" >>,
      << "introduction", "urgency", "consequence" >>,
      << "payment_request" >> }

EngineRiskDeltas == { 0, 5, 30 }

Sessions == { "s1", "s2" }

----------------------------------------------------------------------------
(* EngineSpec: the SessionState interface called in any order.             *)

IdleEnv ==
    [ llm |-> FALSE, script |-> {}, live |-> { "s1" }, faults |-> FALSE ]

NoOut == [ sid |-> NoValue, status |-> NoValue, reply |-> NoValue,
           mode |-> NoValue ]

EngineInit ==
    /\ sessions = [ s \in Sessions |-> NewSession ]
    /\ extraction_history = [ s \in Sessions |-> << >> ]
    /\ turn_counter = [ s \in Sessions |-> 0 ]
    /\ reqs = {}
    /\ tasks = {}
    /\ out = NoOut
    /\ delivered = {}
    /\ env = IdleEnv
    /\ remaining = MaxCalls

EngineCall(s, after) ==
    /\ remaining > 0
    /\ s \in env.live
    /\ sessions' = [ sessions EXCEPT ![s] = after ]
    /\ remaining' = remaining - 1
    /\ UNCHANGED << extraction_history, turn_counter, reqs, tasks, out,
                    delivered, env >>

CallIncrementTurn(s) ==
    EngineCall(s, [ sessions[s] EXCEPT !.turn_count = @ + 1 ])

CallAddRisk(s) ==
    \E d \in EngineRiskDeltas : EngineCall(s, add_risk(sessions[s], d))

CallAddSignal(s) ==
    \E sig \in EngineSignals(sessions[s].turn_count) :
        EngineCall(s, add_signal(sessions[s], sig))

CallTriggerHardRule(s) ==
    \E score \in { 0, 35 } :
        EngineCall(s, trigger_hard_rule(sessions[s], score))

CallAddLLMJudgement(s) ==
    \E j \in EngineJudgements(sessions[s].turn_count) :
        EngineCall(s, add_llm_judgement(sessions[s], j))

CallUpdateStageFromPatterns(s) ==
    \E p \in EnginePatterns :
        EngineCall(s, update_stage_from_patterns(sessions[s], p))

CallCheckMissionComplete(s) ==
    EngineCall(s, check_mission_complete(sessions[s]))

EngineNext ==
    \E s \in Sessions :
        \/ CallIncrementTurn(s)
        \/ CallAddRisk(s)
        \/ CallAddSignal(s)
        \/ CallTriggerHardRule(s)
        \/ CallAddLLMJudgement(s)
        \/ CallUpdateStageFromPatterns(s)
        \/ CallCheckMissionComplete(s)

EngineSpec == EngineInit /\ [][EngineNext]_vars

----------------------------------------------------------------------------
(* MissionSpec: check_mission_complete applied to sessions with every      *)
(* combination of the inputs it reads.  A session is built as the program  *)
(* builds it: signals through add_signal, intel as chat_handler syncs it   *)
(* (a message that carried an artifact left the stage at TRUST or later).  *)

MissionCalls == 2
MissionSignalsMax == 3

MissionSignals ==
    { Signal("financial", "payment_terms", 12, FALSE, "rule", 1),
      Signal("otp_request", "otp_share_request", 35, TRUE, "rule", 1),
      Signal("threat", "legal_threat", 44, FALSE, "rule", 1) }

MissionSignalLists ==
    UNION { [ 1..n -> MissionSignals ] : n \in 0..MissionSignalsMax }

MissionTurnCounts ==
    { 1, MIN_TURNS - 1, MIN_TURNS, MAX_MISSION_TURNS - 1, MAX_MISSION_TURNS }

RECURSIVE AddSignalList(_, _)
AddSignalList(st, signals) ==
    IF signals = << >> THEN st
    ELSE AddSignalList(add_signal(st, Head(signals)), Tail(signals))

MissionSession(signals, turns, upi, bank, phone, links) ==
    [ update_stage_from_patterns(
          AddSignalList(NewSession, signals),
          IF upi \cup bank \cup phone \cup links # {}
          THEN << "verification" >> ELSE << >>)
      EXCEPT !.turn_count = turns, !.upi_ids = upi, !.bank_accounts = bank,
             !.phone_numbers = phone, !.phishing_links = links ]

MissionSessions ==
    { MissionSession(signals, turns, upi, bank, phone, links) :
        signals \in MissionSignalLists, turns \in MissionTurnCounts,
        upi \in { {}, { "pay@ybl" } }, bank \in { {}, { "123456789012" } },
        phone \in { {}, { "9876543210" } },
        links \in { {}, { "http://bit.ly/kyc-now" } } }

MissionInit ==
    /\ \E st \in MissionSessions :
          sessions = [ s \in Sessions |->
                         IF s = "s1" THEN st ELSE NewSession ]
    /\ extraction_history = [ s \in Sessions |-> << >> ]
    /\ turn_counter = [ s \in Sessions |-> 0 ]
    /\ reqs = {}
    /\ tasks = {}
    /\ out = NoOut
    /\ delivered = {}
    /\ env = IdleEnv
    /\ remaining = MissionCalls

(* AgentController.check_mission_complete: the session's own check, its    *)
(* returned value kept in out.reply.                                       *)
MissionCheck(s) ==
    /\ remaining > 0
    /\ s \in env.live
    /\ sessions' = [ sessions EXCEPT ![s] = check_mission_complete(@) ]
    /\ out' = [ sid |-> s, status |-> "mission_check",
                reply |-> mission_complete_result(sessions[s]),
                mode |-> NoValue ]
    /\ remaining' = remaining - 1
    /\ UNCHANGED << extraction_history, turn_counter, reqs, tasks,
                    delivered, env >>

MissionNext ==
    \E s \in Sessions :
        \/ MissionCheck(s)
        \/ CallIncrementTurn(s)
        \/ CallAddSignal(s)

MissionSpec == MissionInit /\ [][MissionNext]_vars

----------------------------------------------------------------------------
(* The inbound messages of the model.  A message is its text together     *)
(* with what the code computes from that text, so that the operators      *)
(* below take the message where the code takes message_text:              *)
(* analyze_message (hard rules, then soft rules with their                 *)
(* scaled scores), detect_stage_patterns, the ML confidence in             *)
(* thousandths, the language cues chat_handler reads, the intent           *)
(* _classify_scammer_intent gives, and what extract_light and              *)
(* extract_heavy find (records: the _record_extraction calls, in order).   *)

Messages == {
    [ text |-> "Hi, how are you today?",
      signals |-> <<  >>,
      patterns |-> <<"greeting", "deadline">>,
      ml_confidence |-> 389,
      devanagari |-> FALSE, hindi_count |-> 0,
      detect_language |-> "english",
      intent |-> "general",
      keywords |-> {},
      upi |-> {}, bank |-> {},
      phone |-> {}, links |-> {},
      heavy_keywords |-> {},
      records |-> <<  >> ],
    [ text |-> "Share your OTP 123456 now to unblock account.",
      signals |->
        << [ signal_type |-> "otp_request", signal_name |-> "otp_share_request",
             score |-> 35, is_hard_rule |-> TRUE ] >>,
      patterns |-> <<>>,
      ml_confidence |-> 483,
      devanagari |-> FALSE, hindi_count |-> 0,
      detect_language |-> "english",
      intent |-> "threatening",
      keywords |-> {"otp"},
      upi |-> {}, bank |-> {},
      phone |-> {}, links |-> {},
      heavy_keywords |-> {},
      records |-> <<  >> ],
    [ text |->
        "Hello, this is SBI customer care. Your account has suspicious activity.",
      signals |->
        << [ signal_type |-> "threat", signal_name |-> "account_threat",
             score |-> 21, is_hard_rule |-> FALSE ],
           [ signal_type |-> "authority", signal_name |-> "bank_authority",
             score |-> 18, is_hard_rule |-> FALSE ] >>,
      patterns |-> <<"greeting", "introduction">>,
      ml_confidence |-> 668,
      devanagari |-> FALSE, hindi_count |-> 0,
      detect_language |-> "english",
      intent |-> "general",
      keywords |-> {"customer care"},
      upi |-> {}, bank |-> {},
      phone |-> {}, links |-> {},
      heavy_keywords |-> {},
      records |-> <<  >> ],
    [ text |-> "Please verify your details and use pay@ybl",
      signals |-> <<  >>,
      patterns |-> <<"verification">>,
      ml_confidence |-> 416,
      devanagari |-> FALSE, hindi_count |-> 0,
      detect_language |-> "english",
      intent |-> "requesting_payment",
      keywords |-> {"pay"},
      upi |-> {"pay@ybl"}, bank |-> {},
      phone |-> {}, links |-> {},
      heavy_keywords |-> {},
      records |-> << [ value |-> "pay@ybl", item_type |-> "upi" ] >> ],
    [ text |->
        "Transfer Rs 5000 to this UPI ID for security deposit: scammer@ybl",
      signals |->
        << [ signal_type |-> "payment_request", signal_name |-> "transfer_money_request",
             score |-> 30, is_hard_rule |-> TRUE ],
           [ signal_type |-> "financial", signal_name |-> "payment_terms",
             score |-> 12, is_hard_rule |-> FALSE ] >>,
      patterns |-> <<"payment_request">>,
      ml_confidence |-> 796,
      devanagari |-> FALSE, hindi_count |-> 0,
      detect_language |-> "english",
      intent |-> "requesting_payment",
      keywords |-> {"transfer", "deposit"},
      upi |-> {"scammer@ybl"}, bank |-> {},
      phone |-> {}, links |-> {},
      heavy_keywords |-> {},
      records |-> << [ value |-> "scammer@ybl", item_type |-> "upi" ] >> ],
    [ text |-> "This is urgent! Your account will be blocked within 1 hour.",
      signals |->
        << [ signal_type |-> "urgency", signal_name |-> "high_urgency",
             score |-> 14, is_hard_rule |-> FALSE ],
           [ signal_type |-> "authority", signal_name |-> "gov_authority",
             score |-> 24, is_hard_rule |-> FALSE ] >>,
      patterns |-> <<"introduction", "urgency", "consequence", "deadline">>,
      ml_confidence |-> 960,
      devanagari |-> FALSE, hindi_count |-> 0,
      detect_language |-> "hindi",
      intent |-> "threatening",
      keywords |-> {"urgent", "within 1 hour", "blocked"},
      upi |-> {}, bank |-> {},
      phone |-> {}, links |-> {},
      heavy_keywords |-> {},
      records |-> <<  >> ],
    [ text |-> "Aapka account block ho jayega, turant OTP bhejo",
      signals |-> <<  >>,
      patterns |-> <<>>,
      ml_confidence |-> 421,
      devanagari |-> FALSE, hindi_count |-> 4,
      detect_language |-> "hindi",
      intent |-> "threatening",
      keywords |-> {"block", "otp"},
      upi |-> {}, bank |-> {},
      phone |-> {}, links |-> {},
      heavy_keywords |-> {},
      records |-> <<  >> ],
    [ text |-> "Call 9876543210 and click link http://bit.ly/kyc-now",
      signals |->
        << [ signal_type |-> "personal_info", signal_name |-> "identity_request",
             score |-> 18, is_hard_rule |-> FALSE ] >>,
      patterns |-> <<"link_share">>,
      ml_confidence |-> 423,
      devanagari |-> FALSE, hindi_count |-> 0,
      detect_language |-> "english",
      intent |-> "requesting_app_install",
      keywords |-> {"kyc"},
      upi |-> {}, bank |-> {},
      phone |->
        {"9876543210"}, links |-> {"http://bit.ly/kyc-now", "https://bit.ly/kyc-now"},
      heavy_keywords |-> {},
      records |->
        << [ value |-> "9876543210", item_type |-> "phone" ],
           [ value |-> "http://bit.ly/kyc-now", item_type |-> "url" ],
           [ value |-> "https://bit.ly/kyc-now",
             item_type |-> "short_url" ] >> ],
    [ text |-> "Sir please note the reference pay@ybl",
      signals |-> <<  >>,
      patterns |-> <<"greeting">>,
      ml_confidence |-> 391,
      devanagari |-> FALSE, hindi_count |-> 0,
      detect_language |-> "hindi",
      intent |-> "requesting_payment",
      keywords |-> {"pay"},
      upi |-> {"pay@ybl"}, bank |-> {},
      phone |-> {}, links |-> {},
      heavy_keywords |-> {},
      records |-> << [ value |-> "pay@ybl", item_type |-> "upi" ] >> ]
}

----------------------------------------------------------------------------
(* risk_engine.py: CumulativeRiskEngine, applied to one session.           *)

(* analyze_message: the signals of the text, stamped with the turn.        *)
analyze_message(message, turn_number) ==
    LET found == message.signals
    IN  [ i \in 1..Len(found) |->
            Signal(found[i].signal_type, found[i].signal_name,
                   found[i].score, found[i].is_hard_rule, "rule",
                   turn_number) ]

(* The third value analyze_message returns.                                *)
any_hard_rule(signals) ==
    \E i \in 1..Len(signals) : signals[i].is_hard_rule

detect_stage_patterns(message) == message.patterns

RECURSIVE add_signals(_, _)
add_signals(st, signals) ==
    IF signals = << >> THEN st
    ELSE add_signals(add_signal(st, Head(signals)), Tail(signals))

(* apply_signals_to_session.                                               *)
apply_signals_to_session(st, signals, hard_rule_triggered) ==
    LET applied == add_signals(st, signals)
    IN  IF hard_rule_triggered
        THEN [ applied EXCEPT !.scam_detected = TRUE,
                              !.hard_rule_triggered = TRUE ]
        ELSE applied

ML_CONFIDENCE_THRESHOLD == 600

(* apply_ml_score: the confidence ladder, then add_signal.                 *)
apply_ml_score(st, ml_confidence, ml_is_scam, turn_number) ==
    IF ~ ml_is_scam \/ ml_confidence < 600 THEN st
    ELSE LET score == IF ml_confidence >= 900 THEN 25
                      ELSE IF ml_confidence >= 800 THEN 18
                      ELSE IF ml_confidence >= 700 THEN 12
                      ELSE 8
         IN  add_signal(st, Signal("ml_detection", "ml_classifier", score,
                                   FALSE, "ml", turn_number))

----------------------------------------------------------------------------
(* scam_detector.py: LLMReasoningJudge and HybridScamDetector.             *)

(* Names of rules that contain one of the fragments otp, pin, payment,     *)
(* transfer, arrest, block (_fallback_judgement's high_risk list).         *)
HighRiskSignalNames ==
    { "card_pin_request", "otp_on_phone", "otp_share_request",
      "payment_terms", "transfer_money_request", "upi_pin_request" }

(* LLMReasoningJudge._fallback_judgement.                                  *)
fallback_judgement(turn_number, detected_signals) ==
    LET risk_count ==
          Cardinality({ i \in 1..Len(detected_signals) :
              detected_signals[i].signal_name \in HighRiskSignalNames })
    IN  Judgement(turn_number, risk_count >= 2, 500 + risk_count * 100,
                  risk_count * 5, NoValue)

RISK_BOOST_MAX == 30

(* What the remote judge answered, after judge() has parsed it: the boost  *)
(* clamped into 0..30, the stage parsed or None.                           *)
RemoteAnswers ==
    { [ is_scam_likely |-> FALSE, confidence |-> 400, risk_boost |-> 0,
        suggested_stage |-> NoValue ],
      [ is_scam_likely |-> TRUE, confidence |-> 700, risk_boost |-> -5,
        suggested_stage |-> "HOOK" ],
      [ is_scam_likely |-> TRUE, confidence |-> 900, risk_boost |-> 45,
        suggested_stage |-> "CONFIRMED" ],
      [ is_scam_likely |-> FALSE, confidence |-> 800, risk_boost |-> 10,
        suggested_stage |-> "bogus" ],
      [ is_scam_likely |-> TRUE, confidence |-> 750, risk_boost |-> 0,
        suggested_stage |-> "CONFIRMED" ] }

JudgeFailed == [ failed |-> TRUE ]

(* LLMReasoningJudge.judge once the remote call has returned `answer`      *)
(* (or raised).                                                            *)
judge_result(turn_number, detected_signals, answer) ==
    IF answer = JudgeFailed
    THEN fallback_judgement(turn_number, detected_signals)
    ELSE Judgement(turn_number, answer.is_scam_likely, answer.confidence,
                   Min(RISK_BOOST_MAX,
                       IF answer.risk_boost > 0 THEN answer.risk_boost ELSE 0),
                   IF answer.suggested_stage \in ScamStage
                   THEN answer.suggested_stage ELSE NoValue)

LLM_INVOKE_THRESHOLD == 20

(* detect, lines 261-268: the ML result is applied when it says scam     *)
(* with confidence at the threshold.                                       *)
apply_ml_result(st, ml_confidence, ml_is_scam, turn_number) ==
    IF ml_is_scam /\ ml_confidence >= ML_CONFIDENCE_THRESHOLD
    THEN apply_ml_score(st, ml_confidence, ml_is_scam, turn_number)
    ELSE st

(* Variant of the gate that does not count the stage patterns.             *)
detection_at_judge_no_patterns(st, turn, signals, patterns, hard, is_scam) ==
    [ session |-> st, turn_number |-> turn, signals |-> signals,
      patterns |-> patterns,
      hard_rule_triggered |-> hard, ml_is_scam |-> is_scam,
      invoke |-> st.risk_score >= LLM_INVOKE_THRESHOLD \/ hard ]

(* detect, lines 274-279: should_invoke_llm, with what the rest of the     *)
(* call needs once the judge has answered.                                 *)
detection_at_judge(st, turn, signals, patterns, hard, is_scam) ==
    [ session |-> st, turn_number |-> turn, signals |-> signals,
      patterns |-> patterns,
      hard_rule_triggered |-> hard, ml_is_scam |-> is_scam,
      invoke |-> \/ st.risk_score >= LLM_INVOKE_THRESHOLD
                 \/ Len(patterns) >= 2
                 \/ hard ]

(* A conversationHistory entry: its text and the confidence predict gives  *)
(* that text, in thousandths.                                              *)
ScamHistoryMessage ==
    [ text |-> "Your account will be blocked today. Share the OTP immediately to verify.",
      ml_confidence |-> 971 ]

(* The conversationHistory values a request carries in the model.          *)
Histories == { << >>, << ScamHistoryMessage >> }

SCAM_THRESHOLD == 500

Max(a, b) == IF a >= b THEN a ELSE b

RECURSIVE MaxOf(_)
MaxOf(confidences) ==
    IF Len(confidences) = 1 THEN confidences[1]
    ELSE Max(confidences[1], MaxOf(Tail(confidences)))

RECURSIVE SumOf(_)
SumOf(confidences) ==
    IF confidences = << >> THEN 0
    ELSE confidences[1] + SumOf(Tail(confidences))

(* ml_detector.predict_conversation on the confidences of the messages, in *)
(* thousandths rounded down: 0.7 max + 0.3 average, times 1.1 capped at 1  *)
(* when half of the messages or more are predicted scam.                   *)
predict_conversation(confidences) ==
    IF confidences = << >> THEN 0
    ELSE LET final == (7 * MaxOf(confidences)
                        + 3 * (SumOf(confidences) \div Len(confidences)))
                         \div 10
             scam_predictions ==
                 Cardinality({ i \in 1..Len(confidences) :
                                 confidences[i] >= SCAM_THRESHOLD })
         IN  IF 2 * scam_predictions >= Len(confidences)
             THEN Min(1000, (final * 11) \div 10)
             ELSE final

(* _run_ml_detection's final_confidence: the message alone, or the larger  *)
(* of that and the conversation's when there are history texts.            *)
run_ml_detection(message, history_texts) ==
    IF history_texts = << >> THEN message.ml_confidence
    ELSE Max(message.ml_confidence,
             predict_conversation(
                 [ i \in 1..Len(history_texts) |->
                       history_texts[i].ml_confidence ]
                   \o << message.ml_confidence >>))

(* detect's steps 1-3 on the final ML confidence.                          *)
detect_with_confidence(st, message, turn, signals, hard, patterns, confidence) ==
    detection_at_judge(
        apply_ml_result(
            update_stage_from_patterns(
                apply_signals_to_session(
                    [ st EXCEPT !.turn_count = turn ], signals, hard),
                patterns),
            confidence, confidence >= ML_CONFIDENCE_THRESHOLD, turn),
        turn, signals, patterns, hard,
        confidence >= ML_CONFIDENCE_THRESHOLD)

(* HybridScamDetector.detect up to the judge call: turn count, rules,      *)
(* patterns, ML.                                                           *)
detect_until_judge(st, message, conversation_history) ==
    detect_with_confidence(st, message, st.turn_count + 1,
        analyze_message(message, st.turn_count + 1),
        any_hard_rule(analyze_message(message, st.turn_count + 1)),
        detect_stage_patterns(message),
        run_ml_detection(message, conversation_history))

(* llm_judgement = None: the judge was not invoked.                        *)
NoJudgement == [ invoked |-> FALSE ]

(* HybridScamDetector._make_decision: the scamDetected it returns.         *)
make_decision(st, hard_rule_triggered, ml_is_scam, llm_judgement) ==
    IF hard_rule_triggered THEN TRUE
    ELSE IF st.risk_score >= THRESHOLD_CONFIRMED THEN TRUE
    ELSE IF st.risk_score >= THRESHOLD_THREAT
    THEN LET llm_agrees == IF llm_judgement = NoJudgement THEN FALSE
                           ELSE llm_judgement.is_scam_likely
         IN  IF ml_is_scam /\ llm_agrees THEN TRUE ELSE st.scam_detected
    ELSE st.scam_detected

(* _make_decision, lines 408-411: the confidence of the result, in         *)
(* thousandths: the score over 100 capped at 1, averaged with the          *)
(* judgement's confidence when there is a judgement.                       *)
decision_confidence(st, llm_judgement) ==
    IF llm_judgement = NoJudgement
    THEN Min(1000, st.risk_score * 10)
    ELSE (Min(1000, st.risk_score * 10) + llm_judgement.confidence) \div 2

(* HybridScamDetector.detect from the judge's return on: the judgement is  *)
(* applied to the session as it is now, then the decision is taken.        *)
detect_after_judge(st, hard_rule_triggered, ml_is_scam, llm_judgement) ==
    LET judged == IF llm_judgement = NoJudgement THEN st
                  ELSE add_llm_judgement(st, llm_judgement)
    IN  [ session |-> judged,
          scamDetected |-> make_decision(judged, hard_rule_triggered,
                                         ml_is_scam, llm_judgement),
          confidence |-> decision_confidence(judged, llm_judgement),
          scam_stage |-> judged.scam_stage ]

----------------------------------------------------------------------------
(* agent_controller.py: SafetyValidator.  The three pattern families are   *)
(* given by the reply texts of this model that they match; every literal   *)
(* template and question below matches none of them.                       *)

FORBIDDEN_PATTERNS == { "My OTP is 987654" }
AUTHORITY_IMPERSONATION == { "I am from CBI" }
OVER_COMPLIANCE_PATTERNS == { "Here is my OTP" }

(* SafetyValidator.validate_output: the violation kinds; safe iff none.    *)
validate_output(text) ==
    (IF text \in FORBIDDEN_PATTERNS THEN { "SENSITIVE_DATA" } ELSE {})
    \cup (IF text \in AUTHORITY_IMPERSONATION
          THEN { "AUTHORITY_IMPERSONATION" } ELSE {})
    \cup (IF text \in OVER_COMPLIANCE_PATTERNS
          THEN { "OVER_COMPLIANCE" } ELSE {})

is_safe(text) == validate_output(text) = {}

----------------------------------------------------------------------------
(* agent_controller.py: AgentController templates and questions.           *)

language_templates ==
    [ hindi |->
        [ confusion   |-> << "Samajh nahi aaya.", "Kya matlab?",
                             "Arre, mujhe confuse ho raha hai.",
                             "Thoda slow bolo na.", "Acha acha, phir?" >>,
          stalling    |-> << "Ek second ruko.", "Haan haan, suno.",
                             "Achha theek hai.", "Hmm, phir?" >>,
          followup    |-> << "Iske baad kya karna hai?", "Phir kya hoga?",
                             "Aur kuch karna padega?", "Kitna time lagega?",
                             "Aap batayenge na kya karna hai?" >>,
          termination |-> << "Theek hai, thodi der baad karta hoon.",
                             "Abhi phone charge pe lagata hoon.",
                             "Baad mein baat karte hain.",
                             "Achha theek hai, sochta hoon." >> ],
      english |->
        [ confusion   |-> << "Sorry, didn't understand.",
                             "What do you mean?", "I'm confused.",
                             "Can you say that again?", "Okay okay, then?" >>,
          stalling    |-> << "One second.", "Yes yes, go on.",
                             "Okay, fine.", "Hmm, then?" >>,
          followup    |-> << "What do I do after that?",
                             "Then what happens?",
                             "Anything else I need to do?",
                             "How long will it take?",
                             "You'll tell me what to do right?" >>,
          termination |-> << "Okay, I'll do it later.",
                             "Let me charge my phone first.",
                             "Talk later, bye.",
                             "Okay let me think about it." >> ] ]

natural_questions ==
    [ hindi   |-> << "Iske baad kya karna hoga?", "Phir kya hoga?",
                     "Kitna time lagega?", "Aur kuch karna padega kya?",
                     "Koi problem toh nahi hogi na?", "Safe hai na yeh?",
                     "Sahi se ho jayega na?", "Achha, phir?",
                     "Theek hai, aage batao.", "Hmm, phir kya?" >>,
      english |-> << "What do I do after that?", "Then what happens?",
                     "How long will it take?",
                     "Do I need to do anything else?",
                     "There won't be any problem right?",
                     "This is safe right?", "It will work properly right?",
                     "Okay, then?", "Alright, go on.", "Hmm, then what?" >> ]

Range(seq) == { seq[i] : i \in 1..Len(seq) }

(* _extract_intent_from_response over SEMANTIC_INTENT_MAP, for the texts   *)
(* it is applied to (the natural questions and the accepted LLM replies):  *)
(* those holding a next_action_step keyword (phir, then, how, karna, aage, *)
(* step, next) and no keyword of an earlier intent; the rest are generic.  *)
NextActionStepTexts ==
    { "Iske baad kya karna hoga?", "Phir kya hoga?",
      "Aur kuch karna padega kya?", "Achha, phir?",
      "Theek hai, aage batao.", "Hmm, phir kya?", "Then what happens?",
      "How long will it take?", "Okay, then?", "Hmm, then what?",
      "Which step is next?" }

extract_intent_from_response(response) ==
    IF response \in NextActionStepTexts
    THEN "next_action_step" ELSE "generic"

(* _get_fallback_response_language: the options random.choice draws from.  *)
fallback_response_language(stage, language) ==
    LET templates == language_templates[language]
    IN  IF stage \in { "NORMAL", "HOOK" }
        THEN Range(templates.confusion)
        ELSE IF stage \in { "TRUST", "THREAT" }
        THEN Range(templates.confusion) \cup Range(templates.followup)
        ELSE Range(templates.followup) \cup Range(templates.stalling)

(* _enforce_length_limit on a reply given as its sentences.                *)
enforce_length_limit(sentences, max_sentences) ==
    IF Len(sentences) <= max_sentences THEN sentences
    ELSE SubSeq(sentences, 1, max_sentences)

----------------------------------------------------------------------------
(* The agent memory kept on the session (lock_language, add_turn,          *)
(* build_agent_memory, is_question_blocked, add_question, check_stall,     *)
(* get_unused_filler): called by main.py and agent_controller.py, with     *)
(* the behaviour the specification gives for them.                         *)

INTENT_BLOCK_COUNT == 2
RECENT_RING_SIZE == 10
STALL_LIMIT == 3
TURN_CAP == 20

lock_language(st, language) ==
    [ st EXCEPT !.locked_language = language ]

add_turn(st, who, text, intent) ==
    [ st EXCEPT !.conversation_turns =
        Append(@, [ who |-> who, text |-> text, intent |-> intent ]) ]

AgentTurns(st) ==
    SelectSeq(st.conversation_turns, LAMBDA t : t.who = "agent")

(* AgentMemory.should_terminate, as build_agent_memory computes it.        *)
should_terminate(st) ==
    st.stall_counter >= STALL_LIMIT \/ st.turn_count >= TURN_CAP

(* Variant of is_question_blocked that does not look at the ring of        *)
(* recent questions.                                                       *)
is_question_blocked_by_count(st, question, intent) ==
    st.asked_questions[intent] >= INTENT_BLOCK_COUNT

is_question_blocked(st, question, intent) ==
    \/ st.asked_questions[intent] >= INTENT_BLOCK_COUNT
    \/ question \in Range(st.recent_questions)

add_question(st, question, intent) ==
    LET ring == Append(st.recent_questions, question)
    IN  [ st EXCEPT !.asked_questions[intent] = @ + 1,
                    !.recent_questions =
                        IF Len(ring) > RECENT_RING_SIZE THEN Tail(ring)
                        ELSE ring ]

(* The last three agent turns share one intent: one more stall.            *)
check_stall(st) ==
    LET mine == AgentTurns(st)
        n    == Len(mine)
    IN  IF /\ n >= 3
           /\ mine[n].intent = mine[n - 1].intent
           /\ mine[n - 1].intent = mine[n - 2].intent
        THEN [ st EXCEPT !.stall_counter = @ + 1 ] ELSE st

(* The first filler no agent turn has used yet, None when all are used.    *)
get_unused_filler(st, fillers) ==
    LET used == { t.text : t \in Range(AgentTurns(st)) }
        free == { i \in 1..Len(fillers) : fillers[i] \notin used }
    IN  IF free = {} THEN NoValue
        ELSE fillers[CHOOSE i \in free : \A j \in free : i <= j]

----------------------------------------------------------------------------
(* agent_controller.py: AgentController.generate_response.  A call yields  *)
(* one of a set of outcomes [session, reply, mode]: random.choice and the  *)
(* remote reply model are the choices.                                     *)

(* _get_natural_question: the first question not blocked, else an unused   *)
(* stalling filler, else the bare acknowledgment.                          *)
get_natural_question(st, language) ==
    LET questions == natural_questions[language]
        open == { i \in 1..Len(questions) :
                    ~ is_question_blocked(st, questions[i],
                          extract_intent_from_response(questions[i])) }
        ack == get_unused_filler(st, language_templates[language].stalling)
    IN  IF open # {}
        THEN LET q == questions[CHOOSE i \in open : \A j \in open : i <= j]
             IN  [ text |-> q, intent |-> extract_intent_from_response(q) ]
        ELSE IF ack # NoValue
        THEN [ text |-> ack, intent |-> "acknowledgment" ]
        ELSE [ text |-> IF language = "hindi" THEN "Phir?" ELSE "Then?",
               intent |-> "acknowledgment" ]

(* What the remote reply model may return, as sentences; LLMFailed is a    *)
(* call that raises.                                                       *)
LLMOutputs ==
    { << "Which step is next?" >>,
      << "Kya matlab?", "My OTP is 987654" >>,
      << "My OTP is 987654" >>,
      << "I am from CBI" >>,
      << "Here is my OTP" >> }

LLMFailed == << >>

MAX_ATTEMPTS == 2

Outcome(st, reply, mode) ==
    [ session |-> st, reply |-> reply, mode |-> mode ]

(* Variant of the except branch that answers from the Hindi templates      *)
(* whatever the locked language.                                           *)
unrecorded_fallbacks_hindi(heard, stage, language) ==
    { Outcome(heard, f, "exception_fallback") :
        f \in fallback_response_language(stage, "hindi") }

(* The fallback that is recorded as an agent turn, and the one returned    *)
(* from the except branch, which is not.                                   *)
recorded_fallbacks(heard, stage, language) ==
    { Outcome(add_turn(heard, "agent", f, "fallback"), f, "fallback") :
        f \in fallback_response_language(stage, language) }

unrecorded_fallbacks(heard, stage, language) ==
    { Outcome(heard, f, "exception_fallback") :
        f \in fallback_response_language(stage, language) }

(* Variant of the attempt loop that returns the model's reply without      *)
(* looking at the validator's verdict.                                     *)
llm_attempts_unvalidated(heard, stage, language, attempt) ==
    UNION { IF raw = LLMFailed
            THEN unrecorded_fallbacks(heard, stage, language)
            ELSE LET reply  == enforce_length_limit(raw, 1)[1]
                     intent == extract_intent_from_response(reply)
                 IN  { Outcome(add_turn(add_question(heard, reply, intent),
                                        "agent", reply, intent),
                               reply, "llm") } :
            raw \in LLMOutputs \cup { LLMFailed } }

(* The loop "for attempt in range(max_attempts)" with a client.            *)
RECURSIVE llm_attempts(_, _, _, _)
llm_attempts(heard, stage, language, attempt) ==
    IF attempt >= MAX_ATTEMPTS
    THEN recorded_fallbacks(heard, stage, language)
    ELSE UNION {
        IF raw = LLMFailed
        THEN unrecorded_fallbacks(heard, stage, language)
        ELSE LET reply  == enforce_length_limit(raw, 1)[1]
                 intent == extract_intent_from_response(reply)
             IN  IF is_safe(reply)
                 THEN { Outcome(add_turn(add_question(heard, reply, intent),
                                         "agent", reply, intent),
                                reply, "llm") }
                 ELSE IF attempt < MAX_ATTEMPTS - 1
                 THEN llm_attempts(heard, stage, language, attempt + 1)
                 ELSE recorded_fallbacks(heard, stage, language) :
        raw \in LLMOutputs \cup { LLMFailed } }

(* Lines of generate_response after the question is chosen: it is         *)
(* recorded, the stall check runs, the agent turn is stored.               *)
post_detection(heard, q) ==
    { Outcome(add_turn(check_stall(add_question(heard, q.text, q.intent)),
                       "agent", q.text, q.intent),
              q.text, "post_detection") }

(* Variant of generate_response that tests the post-detection condition    *)
(* before the termination flag.                                            *)
reply_outcomes_detection_first(heard, current_stage, scam_detected, client) ==
    LET language == heard.locked_language
        goodbyes == language_templates[language].termination
    IN  IF \/ scam_detected
           \/ current_stage \in { "ACTION", "CONFIRMED", "THREAT" }
        THEN post_detection(heard, get_natural_question(heard, language))
        ELSE IF should_terminate(heard)
        THEN LET unused == get_unused_filler(heard, goodbyes)
             IN  { Outcome(add_turn(heard, "agent", r, "termination"),
                           r, "termination") :
                     r \in IF unused # NoValue THEN { unused }
                           ELSE Range(goodbyes) }
        ELSE IF ~ client
        THEN recorded_fallbacks(heard, current_stage, language)
        ELSE llm_attempts(heard, current_stage, language, 0)

(* generate_response once the inbound message is stored as a turn.         *)
reply_outcomes(heard, current_stage, scam_detected, client) ==
    LET language == heard.locked_language
        goodbyes == language_templates[language].termination
    IN  IF should_terminate(heard)
        THEN LET unused == get_unused_filler(heard, goodbyes)
             IN  { Outcome(add_turn(heard, "agent", r, "termination"),
                           r, "termination") :
                     r \in IF unused # NoValue THEN { unused }
                           ELSE Range(goodbyes) }
        ELSE IF \/ scam_detected
                \/ current_stage \in { "ACTION", "CONFIRMED", "THREAT" }
        THEN post_detection(heard, get_natural_question(heard, language))
        ELSE IF ~ client
        THEN recorded_fallbacks(heard, current_stage, language)
        ELSE llm_attempts(heard, current_stage, language, 0)

generate_response(st, latest_message, scam_detected, client) ==
    reply_outcomes(add_turn(IF st.locked_language = NoValue
                     THEN lock_language(st, latest_message.detect_language)
                     ELSE st,
                     "scammer", latest_message.text, latest_message.intent),
            st.scam_stage, scam_detected, client)

----------------------------------------------------------------------------
(* intelligence_extractor.py: IntelligenceExtractor.extract, on the intel  *)
(* object, the session's extraction history and the session's entry of     *)
(* turn_counter.  It takes no source tag and makes no check of one;        *)
(* chat_handler passes message_source="scammer", a keyword this signature  *)
(* does not declare, and the call is modelled as running extract's body    *)
(* on the inbound text.                                                    *)

HeavyStages == { "TRUST", "THREAT", "ACTION", "CONFIRMED" }

(* The intel list a record's value was appended to.                        *)
ListOf(intel, item_type) ==
    CASE item_type = "upi" -> intel.upiIds
      [] item_type = "bank_account" -> intel.bankAccounts
      [] item_type \in { "phone", "whatsapp" } -> intel.phoneNumbers
      [] item_type \in { "url", "short_url" } -> intel.phishingLinks
      [] OTHER -> intel.suspiciousKeywords

(* extract_heavy: each artifact not yet in its list is appended and        *)
(* recorded with _record_extraction.                                       *)
extract_heavy(message, intel, history, turn) ==
    LET f == message
        fresh == SelectSeq(f.records,
                     LAMBDA r : r.value \notin ListOf(intel, r.item_type))
    IN  [ intel |-> [ intel EXCEPT
                        !.upiIds = @ \cup f.upi,
                        !.bankAccounts = @ \cup f.bank,
                        !.phoneNumbers = @ \cup f.phone,
                        !.phishingLinks = @ \cup f.links,
                        !.suspiciousKeywords = @ \cup f.heavy_keywords ],
          history |-> history \o
              [ i \in 1..Len(fresh) |->
                  [ value |-> fresh[i].value,
                    item_type |-> fresh[i].item_type,
                    source_turn |-> turn ] ] ]

extract(message, current_intelligence, history, counter, scam_stage) ==
    LET turn  == counter + 1
        light == [ current_intelligence EXCEPT
                     !.suspiciousKeywords = @ \cup message.keywords ]
        heavy == IF scam_stage \in HeavyStages
                 THEN extract_heavy(message, light, history, turn)
                 ELSE [ intel |-> light, history |-> history ]
    IN  [ intel |-> heavy.intel, history |-> heavy.history,
          counter |-> turn ]

----------------------------------------------------------------------------
(* main.py: chat_handler, and callback_client.py: the report dispatcher.   *)

HINDI_WORDS_MIN == 2

(* Lines 93-114: Devanagari, or two of the listed Hindi words, else        *)
(* English.  The request's metadata is not read.                           *)
detected_lang(message) ==
    IF message.devanagari THEN "hindi"
    ELSE IF message.hindi_count >= HINDI_WORDS_MIN THEN "hindi"
    ELSE "english"

(* Variant of the language block without its "is None" guard.              *)
language_lock_unguarded(st, message) ==
    [ lock_language(st, detected_lang(message)) EXCEPT !.lock_log = @ + 1 ]

(* Lines 92-117: detect and lock only while no language is locked;         *)
(* lock_log counts the "Language locked to" lines printed.                 *)
language_lock(st, message) ==
    IF st.locked_language = NoValue
    THEN [ lock_language(st, detected_lang(message)) EXCEPT !.lock_log = @ + 1 ]
    ELSE st

(* Variant of the history rule that passes the request's history on every *)
(* turn.                                                                   *)
effective_history_unguarded(st, conversationHistory) == conversationHistory

(* Lines 130-135: the request's conversationHistory on the first turn of   *)
(* the session, the empty list afterwards.                                 *)
effective_history(st, conversationHistory) ==
    IF st.turn_count = 0 THEN conversationHistory ELSE << >>

(* Variant of the snapshot that starts from empty lists instead of copies  *)
(* of the session's.                                                       *)
intel_of_fresh(st) ==
    [ upiIds |-> {}, bankAccounts |-> {}, phoneNumbers |-> {},
      phishingLinks |-> {}, suspiciousKeywords |-> {} ]

(* Lines 162-168 and 196-200: the intel object and its sync back.          *)
intel_of(st) ==
    [ upiIds |-> st.upi_ids, bankAccounts |-> st.bank_accounts,
      phoneNumbers |-> st.phone_numbers, phishingLinks |-> st.phishing_links,
      suspiciousKeywords |-> st.suspicious_keywords ]

(* Variant of the sync that also keeps the agent's latest reply among the  *)
(* keywords.                                                               *)
sync_intel_with_reply(st, intel) ==
    [ st EXCEPT !.upi_ids = intel.upiIds,
                !.bank_accounts = intel.bankAccounts,
                !.phone_numbers = intel.phoneNumbers,
                !.phishing_links = intel.phishingLinks,
                !.suspicious_keywords = intel.suspiciousKeywords
                    \cup { st.conversation_turns[
                               Len(st.conversation_turns)].text } ]

sync_intel(st, intel) ==
    [ st EXCEPT !.upi_ids = intel.upiIds,
                !.bank_accounts = intel.bankAccounts,
                !.phone_numbers = intel.phoneNumbers,
                !.phishing_links = intel.phishingLinks,
                !.suspicious_keywords = intel.suspiciousKeywords ]

(* Variant of lines 206-237 that does not test callback_sent before the    *)
(* mission check.                                                          *)
CompleteTurnUnguarded(s, ex, result, current_msg_count, outcome, synced) ==
    LET dispatch == result.scamDetected /\ mission_complete_result(synced)
    IN  /\ sessions' = [ sessions EXCEPT ![s] =
              [ (IF result.scamDetected
                 THEN check_mission_complete(synced) ELSE synced)
                  EXCEPT !.callback_sent = @ \/ dispatch ] ]
        /\ extraction_history' = [ extraction_history EXCEPT ![s] = ex.history ]
        /\ turn_counter' = [ turn_counter EXCEPT ![s] = ex.counter ]
        /\ tasks' = IF dispatch
                    THEN tasks \cup { [ sid |-> s, attempt |-> 1,
                                        total |-> current_msg_count ] }
                    ELSE tasks
        /\ out' = [ sid |-> s, status |-> "success",
                    reply |-> outcome.reply, mode |-> outcome.mode ]

(* Variant of lines 206-243 that awaits send_final_result_with_retry       *)
(* instead of creating a task: the dispatching turn has no response yet.   *)
CompleteTurnAwaitsReport(s, ex, result, current_msg_count, outcome, synced) ==
    LET asked == result.scamDetected /\ ~ synced.callback_sent
        dispatch == asked /\ mission_complete_result(synced)
    IN  /\ sessions' = [ sessions EXCEPT ![s] =
              [ (IF asked THEN check_mission_complete(synced) ELSE synced)
                  EXCEPT !.callback_sent = @ \/ dispatch ] ]
        /\ extraction_history' = [ extraction_history EXCEPT ![s] = ex.history ]
        /\ turn_counter' = [ turn_counter EXCEPT ![s] = ex.counter ]
        /\ tasks' = IF dispatch
                    THEN tasks \cup { [ sid |-> s, attempt |-> 1,
                                        total |-> current_msg_count ] }
                    ELSE tasks
        /\ out' = IF dispatch THEN out
                  ELSE [ sid |-> s, status |-> "success",
                         reply |-> outcome.reply, mode |-> outcome.mode ]

(* Variant of lines 192-237 whose extractor keeps one extraction history   *)
(* for all sessions.                                                       *)
CompleteTurnSharedHistory(s, ex, result, current_msg_count, outcome, synced) ==
    LET asked == result.scamDetected /\ ~ synced.callback_sent
        dispatch == asked /\ mission_complete_result(synced)
    IN  /\ sessions' = [ sessions EXCEPT ![s] =
              [ (IF asked THEN check_mission_complete(synced) ELSE synced)
                  EXCEPT !.callback_sent = @ \/ dispatch ] ]
        /\ extraction_history' = [ b \in Sessions |->
              IF b = s THEN ex.history
              ELSE extraction_history[b] \o
                   SubSeq(ex.history, Len(extraction_history[s]) + 1,
                          Len(ex.history)) ]
        /\ turn_counter' = [ turn_counter EXCEPT ![s] = ex.counter ]
        /\ tasks' = IF dispatch
                    THEN tasks \cup { [ sid |-> s, attempt |-> 1,
                                        total |-> current_msg_count ] }
                    ELSE tasks
        /\ out' = [ sid |-> s, status |-> "success",
                    reply |-> outcome.reply, mode |-> outcome.mode ]

(* Variant of lines 206-237 that marks the report as sent as soon as the   *)
(* verdict asks for the mission check.                                     *)
CompleteTurnMarksSentEarly(s, ex, result, current_msg_count, outcome, synced) ==
    LET asked == result.scamDetected /\ ~ synced.callback_sent
        dispatch == asked /\ mission_complete_result(synced)
    IN  /\ sessions' = [ sessions EXCEPT ![s] =
              [ (IF asked THEN check_mission_complete(synced) ELSE synced)
                  EXCEPT !.callback_sent = @ \/ asked ] ]
        /\ extraction_history' = [ extraction_history EXCEPT ![s] = ex.history ]
        /\ turn_counter' = [ turn_counter EXCEPT ![s] = ex.counter ]
        /\ tasks' = IF dispatch
                    THEN tasks \cup { [ sid |-> s, attempt |-> 1,
                                        total |-> current_msg_count ] }
                    ELSE tasks
        /\ out' = [ sid |-> s, status |-> "success",
                    reply |-> outcome.reply, mode |-> outcome.mode ]

(* Variant of lines 196-237 that dispatches only in the turn in which the  *)
(* mission becomes complete.                                               *)
CompleteTurnDispatchesOnce(s, ex, result, current_msg_count, outcome, synced) ==
    LET asked == result.scamDetected /\ ~ synced.callback_sent
        dispatch == /\ asked
                    /\ ~ synced.mission_complete
                    /\ mission_complete_result(synced)
    IN  /\ sessions' = [ sessions EXCEPT ![s] =
              [ (IF asked THEN check_mission_complete(synced) ELSE synced)
                  EXCEPT !.callback_sent = @ \/ dispatch ] ]
        /\ extraction_history' = [ extraction_history EXCEPT ![s] = ex.history ]
        /\ turn_counter' = [ turn_counter EXCEPT ![s] = ex.counter ]
        /\ tasks' = IF dispatch
                    THEN tasks \cup { [ sid |-> s, attempt |-> 1,
                                        total |-> current_msg_count ] }
                    ELSE tasks
        /\ out' = [ sid |-> s, status |-> "success",
                    reply |-> outcome.reply, mode |-> outcome.mode ]

(* Lines 196-237: sync, mission check, dispatch, response.                *)
CompleteTurn(s, ex, result, current_msg_count, outcome, synced) ==
    LET asked == result.scamDetected /\ ~ synced.callback_sent
        dispatch == asked /\ mission_complete_result(synced)
    IN  /\ sessions' = [ sessions EXCEPT ![s] =
              [ (IF asked THEN check_mission_complete(synced) ELSE synced)
                  EXCEPT !.callback_sent = @ \/ dispatch ] ]
        /\ extraction_history' = [ extraction_history EXCEPT ![s] = ex.history ]
        /\ turn_counter' = [ turn_counter EXCEPT ![s] = ex.counter ]
        /\ tasks' = IF dispatch
                    THEN tasks \cup { [ sid |-> s, attempt |-> 1,
                                        total |-> current_msg_count ] }
                    ELSE tasks
        /\ out' = [ sid |-> s, status |-> "success",
                    reply |-> outcome.reply, mode |-> outcome.mode ]

(* Lines 171-243: reply, extraction from the inbound message at the stage the *)
(* detector returned, then the rest of the handler.                        *)
FinishTurn(s, message, result, current_msg_count, outcome) ==
    \E ex \in { extract(message, intel_of(outcome.session),
                        extraction_history[s], turn_counter[s],
                        result.scam_stage) } :
        CompleteTurn(s, ex, result, current_msg_count, outcome,
                sync_intel(outcome.session, ex.intel))

(* A request that fails validation: HTTP 400, nothing else happens.        *)
BadRequest ==
    /\ remaining > 0
    /\ remaining' = remaining - 1
    /\ out' = [ sid |-> NoValue, status |-> "http_400", reply |-> NoValue,
                mode |-> NoValue ]
    /\ UNCHANGED << sessions, extraction_history, turn_counter, reqs, tasks,
                    delivered, env >>

(* A turn that runs to its response without suspending: no remote judge    *)
(* is configured or the judge is not invoked.                              *)
Turn(s, message) ==
    /\ remaining > 0
    /\ s \in env.live
    /\ message \in env.script
    /\ \E conversationHistory \in Histories :
       \E d \in { detect_until_judge(language_lock(sessions[s], message),
                      message,
                      effective_history(sessions[s], conversationHistory)) } :
          /\ ~ (env.llm /\ d.invoke)
          /\ \E result \in { detect_after_judge(d.session,
                                 d.hard_rule_triggered, d.ml_is_scam,
                                 IF d.invoke
                                 THEN fallback_judgement(d.turn_number,
                                                         d.signals)
                                 ELSE NoJudgement) } :
                \E outcome \in generate_response(result.session, message,
                                    result.scamDetected, env.llm) :
                    FinishTurn(s, message, result, d.turn_number, outcome)
    /\ remaining' = remaining - 1
    /\ UNCHANGED << reqs, delivered, env >>

(* A turn up to the remote judge call, where the handler suspends.         *)
TurnStart(s, message) ==
    /\ remaining > 0
    /\ s \in env.live
    /\ message \in env.script
    /\ \E conversationHistory \in Histories :
       \E d \in { detect_until_judge(language_lock(sessions[s], message),
                      message,
                      effective_history(sessions[s], conversationHistory)) } :
          /\ env.llm /\ d.invoke
          /\ sessions' = [ sessions EXCEPT ![s] = d.session ]
          /\ reqs' = reqs \cup
                 { [ sid |-> s, message |-> message,
                     conversationHistory |-> conversationHistory,
                     history_texts |->
                         effective_history(sessions[s], conversationHistory),
                     turn_number |-> d.turn_number,
                     signals |-> d.signals,
                     hard_rule_triggered |-> d.hard_rule_triggered,
                     ml_is_scam |-> d.ml_is_scam,
                     current_msg_count |-> d.turn_number ] }
    /\ remaining' = remaining - 1
    /\ UNCHANGED << extraction_history, turn_counter, tasks, out, delivered,
                    env >>

(* The judge call returns (or raises) and the handler runs to its end on   *)
(* the session as it is now.                                               *)
JudgeReturn(r, answer) ==
    /\ r \in reqs
    /\ \E result \in { detect_after_judge(sessions[r.sid],
                           r.hard_rule_triggered, r.ml_is_scam,
                           judge_result(r.turn_number, r.signals,
                                        answer)) } :
          \E outcome \in generate_response(result.session, r.message,
                              result.scamDetected, env.llm) :
              FinishTurn(r.sid, r.message, result, r.current_msg_count,
                         outcome)
    /\ reqs' = reqs \ { r }
    /\ UNCHANGED << delivered, env, remaining >>

GENERIC_ERROR_REPLY ==
    "I'm having trouble understanding. Could you repeat that?"

(* The exceptions of the model: the step of chat_handler that raised and   *)
(* the text of the exception.                                              *)
Exceptions ==
    { [ step |-> "detector", text |-> "KeyError: 'risk_score'" ],
      [ step |-> "reply generator",
        text |-> "AttributeError: 'NoneType' object has no attribute 'chat'" ],
      [ step |-> "extractor", text |-> "re.error: bad escape" ],
      [ step |-> "mission check", text |-> "KeyError: 's1'" ],
      [ step |-> "report construction",
        text |-> "ValidationError: 1 validation error for FinalResultPayload" ] }

(* Variant of the handler's except clause that puts the exception's text   *)
(* in the reply.                                                           *)
error_response_with_detail(s, e) ==
    [ sid |-> s, status |-> "error", reply |-> e.text, mode |-> NoValue ]

(* Lines 247-254: the response for an exception e.                         *)
error_response(s, e) ==
    [ sid |-> s, status |-> "error", reply |-> GENERIC_ERROR_REPLY,
      mode |-> NoValue ]

(* A step of the handler raises with the session as st: what the steps     *)
(* before it did to the session stays.                                     *)
Raised(s, st, step) ==
    /\ sessions' = [ sessions EXCEPT ![s] = st ]
    /\ \E e \in { x \in Exceptions : x.step = step } :
          out' = error_response(s, e)

RaisedBeforeExtract(s, st, step) ==
    /\ Raised(s, st, step)
    /\ UNCHANGED << extraction_history, turn_counter >>

RaisedAfterExtract(s, st, ex, step) ==
    /\ Raised(s, st, step)
    /\ extraction_history' = [ extraction_history EXCEPT ![s] = ex.history ]
    /\ turn_counter' = [ turn_counter EXCEPT ![s] = ex.counter ]

(* Lines 206-224 raise: in the mission check, or after line 212 has set    *)
(* callback_sent and before line 234 creates the task.                     *)
RaisedInMission(s, ex, result, synced) ==
    /\ result.scamDetected
    /\ ~ synced.callback_sent
    /\ \/ RaisedAfterExtract(s, synced, ex, "mission check")
       \/ /\ mission_complete_result(synced)
          /\ RaisedAfterExtract(s,
                 [ check_mission_complete(synced) EXCEPT
                     !.callback_sent = TRUE ], ex, "report construction")

(* Lines 171-224 raise, after detect has returned result.                  *)
RaisedAfterDetect(s, message, result) ==
    \/ RaisedBeforeExtract(s, result.session, "reply generator")
    \/ \E outcome \in generate_response(result.session, message,
                          result.scamDetected, env.llm) :
          \/ RaisedBeforeExtract(s, outcome.session, "extractor")
          \/ \E ex \in { extract(message, intel_of(outcome.session),
                                 extraction_history[s], turn_counter[s],
                                 result.scam_stage) } :
                RaisedInMission(s, ex, result,
                                sync_intel(outcome.session, ex.intel))

(* A turn in which a step raises an exception that no step handles: the    *)
(* handler's except clause answers.                                        *)
TurnRaises(s, message) ==
    /\ env.faults
    /\ remaining > 0
    /\ s \in env.live
    /\ message \in env.script
    /\ \/ RaisedBeforeExtract(s, language_lock(sessions[s], message),
                              "detector")
       \/ \E conversationHistory \in Histories :
          \E d \in { detect_until_judge(language_lock(sessions[s], message),
                         message,
                         effective_history(sessions[s],
                                           conversationHistory)) } :
             /\ ~ (env.llm /\ d.invoke)
             /\ \E result \in { detect_after_judge(d.session,
                                    d.hard_rule_triggered, d.ml_is_scam,
                                    IF d.invoke
                                    THEN fallback_judgement(d.turn_number,
                                                            d.signals)
                                    ELSE NoJudgement) } :
                   RaisedAfterDetect(s, message, result)
    /\ remaining' = remaining - 1
    /\ UNCHANGED << reqs, tasks, delivered, env >>

(* The judge call returns and a later step of the resumed handler raises.  *)
ResumedTurnRaises(r, answer) ==
    /\ env.faults
    /\ r \in reqs
    /\ \E result \in { detect_after_judge(sessions[r.sid],
                           r.hard_rule_triggered, r.ml_is_scam,
                           judge_result(r.turn_number, r.signals,
                                        answer)) } :
          RaisedAfterDetect(r.sid, r.message, result)
    /\ reqs' = reqs \ { r }
    /\ UNCHANGED << tasks, delivered, env, remaining >>

MAX_RETRIES == 3

(* Variant of the exhaustion branch that leaves callback_sent as it is.    *)
retries_exhausted_keeps_flag(st) == st

(* Variant of the exhaustion branch that also clears mission_complete.     *)
retries_exhausted_clears_mission(st) ==
    [ st EXCEPT !.callback_sent = FALSE, !.mission_complete = FALSE ]

(* send_final_result_with_retry after the last failed attempt.             *)
retries_exhausted(st) ==
    [ st EXCEPT !.callback_sent = FALSE ]

(* Variant of a POST answered 200 that clears callback_sent as the         *)
(* exhaustion branch does.                                                 *)
PostSucceedsRearms(t) ==
    /\ t \in tasks
    /\ tasks' = tasks \ { t }
    /\ delivered' = delivered \cup { [ sid |-> t.sid, total |-> t.total ] }
    /\ sessions' = [ sessions EXCEPT ![t.sid] = retries_exhausted(@) ]
    /\ UNCHANGED << extraction_history, turn_counter, reqs, out, env,
                    remaining >>

(* One POST of send_final_result answered 200.                             *)
PostSucceeds(t) ==
    /\ t \in tasks
    /\ tasks' = tasks \ { t }
    /\ delivered' = delivered \cup { [ sid |-> t.sid, total |-> t.total ] }
    /\ UNCHANGED << sessions, extraction_history, turn_counter, reqs, out,
                    env, remaining >>

(* Variant of a failed POST that backs off and tries again whatever the    *)
(* attempt number.                                                         *)
PostFailsUnbounded(t) ==
    /\ t \in tasks
    /\ tasks' = (tasks \ { t }) \cup { [ t EXCEPT !.attempt = @ + 1 ] }
    /\ UNCHANGED << sessions, extraction_history, turn_counter, reqs, out,
                    delivered, env, remaining >>

(* One POST that fails: back off and try again, or give up and re-arm.     *)
PostFails(t) ==
    /\ t \in tasks
    /\ IF t.attempt < MAX_RETRIES
       THEN /\ tasks' = (tasks \ { t })
                        \cup { [ t EXCEPT !.attempt = @ + 1 ] }
            /\ UNCHANGED sessions
       ELSE /\ tasks' = tasks \ { t }
            /\ sessions' = [ sessions EXCEPT
                               ![t.sid] = retries_exhausted(@) ]
    /\ UNCHANGED << extraction_history, turn_counter, reqs, out, delivered,
                    env, remaining >>

----------------------------------------------------------------------------
(* Spec: the service under four environments; in two of them steps of     *)
(* the handler may raise.                                                   *)

MaxTurns == 2
LongTurns == 11
FaultTurns == 3

KeyScript ==
  { m \in Messages : m.text \in
    { "Hi, how are you today?",
      "Hello, this is SBI customer care. Your account has suspicious activity.",
      "Transfer Rs 5000 to this UPI ID for security deposit: scammer@ybl",
      "Please verify your details and use pay@ybl" } }

LongScript ==
  { m \in Messages : m.text =
      "Transfer Rs 5000 to this UPI ID for security deposit: scammer@ybl" }

Init ==
    /\ sessions = [ s \in Sessions |-> NewSession ]
    /\ extraction_history = [ s \in Sessions |-> << >> ]
    /\ turn_counter = [ s \in Sessions |-> 0 ]
    /\ reqs = {}
    /\ tasks = {}
    /\ out = NoOut
    /\ delivered = {}
    /\ \/ /\ env = [ llm |-> FALSE, script |-> Messages, live |-> Sessions,
                     faults |-> FALSE ]
          /\ remaining = MaxTurns
       \/ /\ env = [ llm |-> TRUE, script |-> KeyScript, live |-> { "s1" },
                     faults |-> TRUE ]
          /\ remaining = MaxTurns
       \/ /\ env = [ llm |-> FALSE, script |-> LongScript,
                     live |-> { "s1" }, faults |-> FALSE ]
          /\ remaining = LongTurns
       \/ /\ env = [ llm |-> FALSE, script |-> LongScript,
                     live |-> { "s1" }, faults |-> TRUE ]
          /\ remaining = FaultTurns

Next ==
    \/ BadRequest
    \/ \E s \in Sessions, message \in Messages : Turn(s, message)
    \/ \E s \in Sessions, message \in Messages : TurnStart(s, message)
    \/ \E r \in reqs, answer \in RemoteAnswers \cup { JudgeFailed } :
          JudgeReturn(r, answer)
    \/ \E s \in Sessions, message \in Messages : TurnRaises(s, message)
    \/ \E r \in reqs, answer \in RemoteAnswers \cup { JudgeFailed } :
          ResumedTurnRaises(r, answer)
    \/ \E t \in tasks : PostSucceeds(t)
    \/ \E t \in tasks : PostFails(t)

Spec == Init /\ [][Next]_vars

(* FairSpec: every POST is answered or times out (send_final_result's      *)
(* timeout) and every backoff sleep ends, so a dispatcher task that can    *)
(* take its next step eventually takes it.                                 *)
DispatcherStep(s) ==
    \E t \in tasks : t.sid = s /\ (PostSucceeds(t) \/ PostFails(t))

FairSpec == Spec /\ \A s \in Sessions : WF_vars(DispatcherStep(s))

----------------------------------------------------------------------------
(* DetectorSpec: HybridScamDetector.detect called turn after turn, with    *)
(* and without a remote judge; out holds what the call returned and what   *)
(* it saw at the judge gate.                                               *)

DetectCalls == 3

(* A request that fires every rule whose name holds one of the judge       *)
(* fallback's fragments (four hard rules and the soft rule payment_terms   *)
(* besides otp_share_request), with the same features as Messages.         *)
AllFragmentsMessage ==
    [ text |-> "Share the OTP sent to your phone, enter your UPI PIN, give your debit card PIN and transfer Rs 5000 now.",
      signals |->
        << [ signal_type |-> "otp_request", signal_name |-> "otp_share_request",
             score |-> 35, is_hard_rule |-> TRUE ],
           [ signal_type |-> "otp_request", signal_name |-> "otp_on_phone",
             score |-> 30, is_hard_rule |-> TRUE ],
           [ signal_type |-> "financial", signal_name |-> "upi_pin_request",
             score |-> 40, is_hard_rule |-> TRUE ],
           [ signal_type |-> "payment_request",
             signal_name |-> "transfer_money_request",
             score |-> 30, is_hard_rule |-> TRUE ],
           [ signal_type |-> "financial", signal_name |-> "card_pin_request",
             score |-> 40, is_hard_rule |-> TRUE ],
           [ signal_type |-> "financial", signal_name |-> "payment_terms",
             score |-> 12, is_hard_rule |-> FALSE ] >>,
      patterns |-> << "payment_request" >>,
      ml_confidence |-> 896,
      devanagari |-> FALSE, hindi_count |-> 0,
      detect_language |-> "english",
      intent |-> "requesting_otp",
      keywords |-> { "otp", "pin", "transfer" },
      upi |-> {}, bank |-> {},
      phone |-> {}, links |-> {},
      heavy_keywords |-> {},
      records |-> << >> ]

DetectorMessages == Messages \cup { AllFragmentsMessage }

DetectorInit ==
    /\ sessions = [ s \in Sessions |-> NewSession ]
    /\ extraction_history = [ s \in Sessions |-> << >> ]
    /\ turn_counter = [ s \in Sessions |-> 0 ]
    /\ reqs = {}
    /\ tasks = {}
    /\ out = NoOut
    /\ delivered = {}
    /\ \E llm \in BOOLEAN :
          env = [ llm |-> llm, script |-> DetectorMessages, live |-> { "s1" },
                  faults |-> FALSE ]
    /\ remaining = DetectCalls

(* The judgement detect gets at line 284: none when the gate is closed,    *)
(* the fallback without a client, else what judge() makes of the answer.   *)
judgement_at_gate(d, client, answer) ==
    IF ~ d.invoke THEN NoJudgement
    ELSE IF ~ client THEN fallback_judgement(d.turn_number, d.signals)
    ELSE judge_result(d.turn_number, d.signals, answer)

(* What a call of detect returned, with what it saw at the gate.           *)
detect_report(s, d, judgement, result) ==
    [ sid |-> s, status |-> "detect", reply |-> result.scamDetected,
      mode |-> [ invoke |-> d.invoke,
                 risk_at_gate |-> d.session.risk_score,
                 patterns |-> d.patterns,
                 hard_rule_triggered |-> d.hard_rule_triggered,
                 ml_is_scam |-> d.ml_is_scam,
                 judgement |-> judgement,
                 confidence |-> result.confidence,
                 scam_stage |-> result.scam_stage ] ]

(* One call of detect, lines 216-307.                                      *)
Detect(s, message, answer) ==
    /\ remaining > 0
    /\ s \in env.live
    /\ message \in env.script
    /\ \E d \in { detect_until_judge(sessions[s], message, << >>) } :
       \E judgement \in { judgement_at_gate(d, env.llm, answer) } :
       \E result \in { detect_after_judge(d.session, d.hard_rule_triggered,
                                          d.ml_is_scam, judgement) } :
          /\ sessions' = [ sessions EXCEPT ![s] = result.session ]
          /\ out' = detect_report(s, d, judgement, result)
    /\ remaining' = remaining - 1
    /\ UNCHANGED << extraction_history, turn_counter, reqs, tasks, delivered,
                    env >>

DetectorNext ==
    \E s \in Sessions, message \in DetectorMessages :
        \E answer \in RemoteAnswers \cup { JudgeFailed } :
            Detect(s, message, answer)

DetectorSpec == DetectorInit /\ [][DetectorNext]_vars

----------------------------------------------------------------------------
(* ReplaySpec: the same requests fed to two fresh sessions, turn by turn,  *)
(* with the judge stubbed by a fixture (its answer for each turn number)   *)
(* and the reply generator free to pick a different reply for each.        *)

ReplayTurns == 2

ReplayScript ==
    { m \in Messages : m.text \in
        { "Transfer Rs 5000 to this UPI ID for security deposit: scammer@ybl",
          "Hi, how are you today?" } }

ReplayAnswers == { a \in RemoteAnswers : a.confidence >= 850 }

(* The fixtures: one answer for every turn, or two answers in turn.        *)
Fixtures ==
    { << JudgeFailed >> }
      \cup { << a >> : a \in ReplayAnswers }
      \cup { << JudgeFailed, a >> : a \in ReplayAnswers }

fixture_answer(fixture, turn_number) ==
    fixture[((turn_number - 1) % Len(fixture)) + 1]

(* chat_handler lines 196-243 as a value: the session, the extractor's     *)
(* state for it, the reply and whether a report was dispatched.            *)
turn_record(result, ex, current_msg_count, reply, synced) ==
    [ session |->
          [ (IF result.scamDetected /\ ~ synced.callback_sent
             THEN check_mission_complete(synced) ELSE synced)
              EXCEPT !.callback_sent =
                  @ \/ (/\ result.scamDetected
                        /\ ~ synced.callback_sent
                        /\ mission_complete_result(synced)) ],
      history |-> ex.history,
      counter |-> ex.counter,
      reply |-> reply,
      total |-> current_msg_count,
      dispatch |-> /\ result.scamDetected
                   /\ ~ synced.callback_sent
                   /\ mission_complete_result(synced) ]

turn_synced(result, ex, current_msg_count, outcome) ==
    turn_record(result, ex, current_msg_count, outcome.reply,
                sync_intel(outcome.session, ex.intel))

(* Lines 171-243 for every reply the generator can pick.                   *)
turn_after_detect(message, hist, counter, client, current_msg_count, result) ==
    { turn_synced(result,
                  extract(message, intel_of(outcome.session), hist, counter,
                          result.scam_stage),
                  current_msg_count, outcome) :
        outcome \in generate_response(result.session, message,
                                      result.scamDetected, client) }

detect_at_gate(d, client, answer) ==
    detect_after_judge(d.session, d.hard_rule_triggered, d.ml_is_scam,
                       judgement_at_gate(d, client, answer))

(* One whole turn of chat_handler on a session that no other turn touches. *)
turn_outcomes(st, hist, counter, message, conversationHistory, client, fixture) ==
    turn_after_detect(message, hist, counter, client, st.turn_count + 1,
        detect_at_gate(
            detect_until_judge(language_lock(st, message), message,
                effective_history(st, conversationHistory)),
            client, fixture_answer(fixture, st.turn_count + 1)))

ReplayInit ==
    /\ sessions = [ s \in Sessions |-> NewSession ]
    /\ extraction_history = [ s \in Sessions |-> << >> ]
    /\ turn_counter = [ s \in Sessions |-> 0 ]
    /\ reqs = {}
    /\ tasks = {}
    /\ out = NoOut
    /\ delivered = {}
    /\ \E llm \in BOOLEAN, fixture \in Fixtures :
          env = [ llm |-> llm, script |-> ReplayScript, live |-> Sessions,
                  faults |-> FALSE, fixture |-> fixture ]
    /\ remaining = ReplayTurns

(* The same request is handled for s1 and for s2.                          *)
Replay(message, conversationHistory) ==
    /\ remaining > 0
    /\ message \in env.script
    /\ \E o1 \in turn_outcomes(sessions["s1"], extraction_history["s1"],
                     turn_counter["s1"], message, conversationHistory,
                     env.llm, env.fixture) :
       \E o2 \in turn_outcomes(sessions["s2"], extraction_history["s2"],
                     turn_counter["s2"], message, conversationHistory,
                     env.llm, env.fixture) :
          /\ sessions' = [ s \in Sessions |->
                             IF s = "s1" THEN o1.session ELSE o2.session ]
          /\ extraction_history' = [ s \in Sessions |->
                             IF s = "s1" THEN o1.history ELSE o2.history ]
          /\ turn_counter' = [ s \in Sessions |->
                             IF s = "s1" THEN o1.counter ELSE o2.counter ]
          /\ tasks' = tasks
               \cup (IF o1.dispatch
                     THEN { [ sid |-> "s1", attempt |-> 1,
                              total |-> o1.total ] } ELSE {})
               \cup (IF o2.dispatch
                     THEN { [ sid |-> "s2", attempt |-> 1,
                              total |-> o2.total ] } ELSE {})
          /\ out' = [ sid |-> "s2", status |-> "success",
                      reply |-> o2.reply, mode |-> o1.reply ]
    /\ remaining' = remaining - 1
    /\ UNCHANGED << reqs, delivered, env >>

ReplayNext ==
    \E message \in Messages, conversationHistory \in Histories :
        Replay(message, conversationHistory)

ReplaySpec == ReplayInit /\ [][ReplayNext]_vars

----------------------------------------------------------------------------
(* RequestSpec: whole requests, metadata included, handled for one         *)
(* session.  IncomingRequest (models.py 14-18) carries an optional         *)
(* Metadata whose language is optional; chat_handler reads sessionId,      *)
(* message and conversationHistory.                                        *)

RequestTurns == 2

NoMetadata == [ provided |-> FALSE ]

Metadatas ==
    { NoMetadata } \cup
      { [ channel |-> "SMS", language |-> l, locale |-> "IN" ] :
          l \in { NoValue, "hindi", "english" } }

metadata_language(metadata) ==
    IF metadata = NoMetadata THEN NoValue ELSE metadata.language

IncomingRequests ==
    { [ sessionId |-> "s1", message |-> message,
        conversationHistory |-> << >>, metadata |-> metadata ] :
        message \in Messages, metadata \in Metadatas }

RequestInit ==
    /\ sessions = [ s \in Sessions |-> NewSession ]
    /\ extraction_history = [ s \in Sessions |-> << >> ]
    /\ turn_counter = [ s \in Sessions |-> 0 ]
    /\ reqs = {}
    /\ tasks = {}
    /\ out = NoOut
    /\ delivered = {}
    /\ \E fixture \in Fixtures :
          env = [ llm |-> FALSE, script |-> Messages, live |-> { "s1" },
                  faults |-> FALSE, fixture |-> fixture ]
    /\ remaining = RequestTurns

(* chat_handler on one request; the response is kept with the language     *)
(* the request's metadata named.                                           *)
Chat(request) ==
    /\ remaining > 0
    /\ request.sessionId \in env.live
    /\ request.message \in env.script
    /\ \E o \in turn_outcomes(sessions[request.sessionId],
                    extraction_history[request.sessionId],
                    turn_counter[request.sessionId], request.message,
                    request.conversationHistory, env.llm, env.fixture) :
          /\ sessions' = [ sessions EXCEPT ![request.sessionId] = o.session ]
          /\ extraction_history' =
                 [ extraction_history EXCEPT ![request.sessionId] = o.history ]
          /\ turn_counter' =
                 [ turn_counter EXCEPT ![request.sessionId] = o.counter ]
          /\ tasks' = tasks \cup
                 (IF o.dispatch
                  THEN { [ sid |-> request.sessionId, attempt |-> 1,
                           total |-> o.total ] } ELSE {})
          /\ out' = [ sid |-> request.sessionId, status |-> "success",
                      reply |-> o.reply,
                      mode |-> [ language |->
                                   metadata_language(request.metadata) ] ]
    /\ remaining' = remaining - 1
    /\ UNCHANGED << reqs, delivered, env >>

RequestNext == \E request \in IncomingRequests : Chat(request)

RequestSpec == RequestInit /\ [][RequestNext]_vars

----------------------------------------------------------------------------
(* GeneratorSpec: AgentController.generate_response called with a reply    *)
(* model stubbed by the answers it gives, call after call, on a turn.      *)

GenerateCalls == 2

GeneratorScript ==
    { m \in Messages : m.text \in
        { "Hi, how are you today?",
          "Aapka account block ho jayega, turant OTP bhejo" } }

(* What the stub returns on the first and on the second call of a turn.    *)
StubAnswers ==
    { << a, b >> : a, b \in LLMOutputs \cup { LLMFailed } }

Called(o, calls) ==
    [ session |-> o.session, reply |-> o.reply, mode |-> o.mode,
      calls |-> calls ]

(* Variant of the attempt loop that validates the first candidate only.    *)
llm_replies_first_checked(heard, stage, language, attempt, answers) ==
    IF answers[1] = LLMFailed
    THEN { Called(o, 1) : o \in unrecorded_fallbacks(heard, stage, language) }
    ELSE IF is_safe(enforce_length_limit(answers[1], 1)[1])
    THEN { Called(Outcome(add_turn(add_question(heard,
                       enforce_length_limit(answers[1], 1)[1],
                       extract_intent_from_response(
                           enforce_length_limit(answers[1], 1)[1])),
                   "agent", enforce_length_limit(answers[1], 1)[1],
                   extract_intent_from_response(
                       enforce_length_limit(answers[1], 1)[1])),
               enforce_length_limit(answers[1], 1)[1], "llm"), 1) }
    ELSE IF answers[2] = LLMFailed
    THEN { Called(o, 2) : o \in unrecorded_fallbacks(heard, stage, language) }
    ELSE { Called(Outcome(add_turn(add_question(heard,
                       enforce_length_limit(answers[2], 1)[1],
                       extract_intent_from_response(
                           enforce_length_limit(answers[2], 1)[1])),
                   "agent", enforce_length_limit(answers[2], 1)[1],
                   extract_intent_from_response(
                       enforce_length_limit(answers[2], 1)[1])),
               enforce_length_limit(answers[2], 1)[1], "llm"), 2) }

(* The loop "for attempt in range(max_attempts)" (lines 825-888) with a    *)
(* client whose answers are given; each outcome tells the calls made.      *)
RECURSIVE llm_replies(_, _, _, _, _)
llm_replies(heard, stage, language, attempt, answers) ==
    IF attempt >= MAX_ATTEMPTS
    THEN { Called(o, attempt) :
             o \in recorded_fallbacks(heard, stage, language) }
    ELSE IF answers[attempt + 1] = LLMFailed
    THEN { Called(o, attempt + 1) :
             o \in unrecorded_fallbacks(heard, stage, language) }
    ELSE LET reply  == enforce_length_limit(answers[attempt + 1], 1)[1]
             intent == extract_intent_from_response(reply)
         IN  IF is_safe(reply)
             THEN { Called(Outcome(add_turn(add_question(heard, reply, intent),
                                            "agent", reply, intent),
                                   reply, "llm"), attempt + 1) }
             ELSE IF attempt < MAX_ATTEMPTS - 1
             THEN llm_replies(heard, stage, language, attempt + 1, answers)
             ELSE { Called(o, attempt + 1) :
                      o \in recorded_fallbacks(heard, stage, language) }

(* generate_response with a client, once the inbound message is stored.    *)
scripted_outcomes(heard, current_stage, scam_detected, answers) ==
    IF \/ should_terminate(heard)
       \/ scam_detected
       \/ current_stage \in { "ACTION", "CONFIRMED", "THREAT" }
    THEN { Called(o, 0) :
             o \in reply_outcomes(heard, current_stage, scam_detected, TRUE) }
    ELSE llm_replies(heard, current_stage, heard.locked_language, 0, answers)

generate_response_scripted(st, latest_message, scam_detected, answers) ==
    scripted_outcomes(add_turn(IF st.locked_language = NoValue
                     THEN lock_language(st, latest_message.detect_language)
                     ELSE st,
                     "scammer", latest_message.text, latest_message.intent),
            st.scam_stage, scam_detected, answers)

GeneratorInit ==
    /\ sessions = [ s \in Sessions |-> NewSession ]
    /\ extraction_history = [ s \in Sessions |-> << >> ]
    /\ turn_counter = [ s \in Sessions |-> 0 ]
    /\ reqs = {}
    /\ tasks = {}
    /\ out = NoOut
    /\ delivered = {}
    /\ env = [ llm |-> TRUE, script |-> GeneratorScript, live |-> { "s1" },
               faults |-> FALSE ]
    /\ remaining = GenerateCalls

(* One call of generate_response; the response is kept with the stub's     *)
(* answers, the verdict passed in and the number of calls made.            *)
Generate(s, message, scam_detected, answers) ==
    /\ remaining > 0
    /\ s \in env.live
    /\ message \in env.script
    /\ \E o \in generate_response_scripted(sessions[s], message,
                                           scam_detected, answers) :
          /\ sessions' = [ sessions EXCEPT ![s] = o.session ]
          /\ out' = [ sid |-> s, status |-> "reply", reply |-> o.reply,
                      mode |-> [ mode |-> o.mode, calls |-> o.calls,
                                 answers |-> answers,
                                 scam_detected |-> scam_detected,
                                 known |-> Outcome(o.session, o.reply, o.mode)
                                    \in generate_response(sessions[s], message,
                                            scam_detected, env.llm) ] ]
    /\ remaining' = remaining - 1
    /\ UNCHANGED << extraction_history, turn_counter, reqs, tasks, delivered,
                    env >>

GeneratorNext ==
    \E s \in Sessions, message \in Messages :
       \E scam_detected \in BOOLEAN, answers \in StubAnswers :
          Generate(s, message, scam_detected, answers)

GeneratorSpec == GeneratorInit /\ [][GeneratorNext]_vars

----------------------------------------------------------------------------
(* DeliverySpec: one session that hears the payment demand turn after      *)
(* turn, no remote judge configured, while the report endpoint is           *)
(* unreliable and then recovers; env                                        *)
(* carries the endpoint's health.  While it is "down" a POST may be        *)
(* answered 200 or fail; once it is "up" every POST is answered 200.       *)

DeliveryTurns == 8

DeliveryInit ==
    /\ sessions = [ s \in Sessions |-> NewSession ]
    /\ extraction_history = [ s \in Sessions |-> << >> ]
    /\ turn_counter = [ s \in Sessions |-> 0 ]
    /\ reqs = {}
    /\ tasks = {}
    /\ out = NoOut
    /\ delivered = {}
    /\ env = [ llm |-> FALSE, script |-> LongScript, live |-> { "s1" },
               faults |-> FALSE, endpoint |-> "down" ]
    /\ remaining = DeliveryTurns

(* send_final_result returns False: the endpoint answered something other  *)
(* than 200, or the POST raised or timed out.                              *)
PostFailsWhileDown(t) ==
    /\ env.endpoint = "down"
    /\ PostFails(t)

(* From here on the endpoint answers every POST with HTTP 200.             *)
EndpointRecovers ==
    /\ env.endpoint = "down"
    /\ env' = [ env EXCEPT !.endpoint = "up" ]
    /\ UNCHANGED << sessions, extraction_history, turn_counter, reqs, tasks,
                    out, delivered, remaining >>

(* A request of session s is received and runs to its response.            *)
Receive(s) ==
    \E message \in Messages : Turn(s, message)

(* The dispatcher task of session s takes its next step.                   *)
DeliveryStep(s) ==
    \E t \in tasks : t.sid = s /\ (PostSucceeds(t) \/ PostFailsWhileDown(t))

DeliveryNext ==
    \/ \E s \in Sessions : Receive(s)
    \/ \E t \in tasks : PostSucceeds(t)
    \/ \E t \in tasks : PostFailsWhileDown(t)
    \/ EndpointRecovers

(* Every POST is answered or times out and every backoff sleep ends, so a  *)
(* dispatcher task that can take its next step eventually takes it.        *)
DeliverySpec ==
    /\ DeliveryInit
    /\ [][DeliveryNext]_vars
    /\ \A s \in Sessions : WF_vars(DeliveryStep(s))

----------------------------------------------------------------------------
(* Properties of the risk engine.                                          *)

RECURSIVE SumScores(_)
SumScores(signals) ==
    IF signals = << >> THEN 0
    ELSE Head(signals).score + SumScores(Tail(signals))

RECURSIVE SumBoosts(_)
SumBoosts(judgements) ==
    IF judgements = << >> THEN 0
    ELSE Head(judgements).risk_boost + SumBoosts(Tail(judgements))

(* What the signals and judgements logged by one step add to the score.    *)
NewlyLogged(before, after) ==
    (SumScores(after.triggered_signals) - SumScores(before.triggered_signals))
    + (SumBoosts(after.llm_judgements) - SumBoosts(before.llm_judgements))

(* C1: the risk score of every session is always between 0 and 100, and a  *)
(* step whose logged signals and judgement boosts would take it above 100  *)
(* leaves it at exactly 100.                                               *)
C1_RiskBounded ==
    /\ [](\A s \in Sessions :
            sessions[s].risk_score >= 0 /\ sessions[s].risk_score <= RISK_MAX)
    /\ [][\A s \in Sessions :
            sessions[s].risk_score + NewlyLogged(sessions[s], sessions'[s])
                > RISK_MAX
            => sessions'[s].risk_score = RISK_MAX]_vars

C1_Witness ==
    \E s \in Sessions :
        /\ sessions[s].risk_score = RISK_MAX
        /\ SumScores(sessions[s].triggered_signals)
             + SumBoosts(sessions[s].llm_judgements) > RISK_MAX

(* C2: no step of any operation lowers the risk score of a session.        *)
C2_RiskMonotone ==
    [][\A s \in Sessions :
          sessions'[s].risk_score >= sessions[s].risk_score]_vars

C2_Witness ==
    \E s \in Sessions :
        /\ sessions[s].risk_score > 0
        /\ sessions[s].risk_score < RISK_MAX
        /\ Len(sessions[s].triggered_signals) >= 2
        /\ Len(sessions[s].llm_judgements) >= 1
        /\ sessions[s].hard_rule_triggered

(* C3: no step moves the stage of a session backward in the order          *)
(* NORMAL < HOOK < TRUST < THREAT < ACTION < CONFIRMED.                    *)
C3_StageMonotone ==
    [][\A s \in Sessions :
          StageIndex(sessions'[s].scam_stage)
              >= StageIndex(sessions[s].scam_stage)]_vars

(* A session at ACTION whose score crossed 50 with its last signal.        *)
C3_Witness ==
    \E s \in Sessions :
        LET st == sessions[s]
            n  == Len(st.triggered_signals)
        IN  /\ st.scam_stage = "ACTION"
            /\ n >= 2
            /\ st.llm_judgements = << >>
            /\ SumScores(st.triggered_signals) = st.risk_score
            /\ ~ st.triggered_signals[n].is_hard_rule
            /\ st.risk_score >= THRESHOLD_THREAT
            /\ st.risk_score - st.triggered_signals[n].score < THRESHOLD_THREAT

(* C6: a score of 70 or more means stage CONFIRMED and scam detected; 50   *)
(* or more means stage THREAT or later; 25 or more means HOOK or later.    *)
C6_ThresholdFloors ==
    \A s \in Sessions :
        LET st == sessions[s]
        IN  /\ st.risk_score >= THRESHOLD_CONFIRMED
                => st.scam_stage = "CONFIRMED" /\ st.scam_detected
            /\ st.risk_score >= THRESHOLD_THREAT
                => StageIndex(st.scam_stage) >= StageIndex("THREAT")
            /\ st.risk_score >= THRESHOLD_SUSPICIOUS
                => StageIndex(st.scam_stage) >= StageIndex("HOOK")

(* A session taken to CONFIRMED by the score alone.                        *)
C6_Witness ==
    \E s \in Sessions :
        /\ sessions[s].risk_score >= THRESHOLD_CONFIRMED
        /\ ~ sessions[s].hard_rule_triggered
        /\ sessions[s].llm_judgements = << >>
        /\ sessions[s].scam_stage = "CONFIRMED"

----------------------------------------------------------------------------
(* Properties of the service: turns, judge returns, dispatcher steps.      *)

(* C4: scam_detected, hard_rule_triggered and mission_complete latch in    *)
(* every session: no step of a turn, of a judge return or of the report    *)
(* dispatcher takes one of them from TRUE back to FALSE.                   *)
C4_FlagsLatch ==
    [][\A s \in Sessions :
          /\ sessions[s].scam_detected => sessions'[s].scam_detected
          /\ sessions[s].hard_rule_triggered
                => sessions'[s].hard_rule_triggered
          /\ sessions[s].mission_complete
                => sessions'[s].mission_complete]_vars

(* The dispatcher has given up on a report and re-armed callback_sent,     *)
(* with all three flags set.                                               *)
C4_Witness ==
    \E s \in Sessions :
        /\ sessions[s].scam_detected
        /\ sessions[s].hard_rule_triggered
        /\ sessions[s].mission_complete
        /\ ~ sessions[s].callback_sent
        /\ \A t \in tasks : t.sid # s

HardSignalLogged(before, after) ==
    \E i \in (Len(before.triggered_signals) + 1)
                 ..Len(after.triggered_signals) :
        after.triggered_signals[i].is_hard_rule

(* C5: a step that logs a hard-rule signal in a session leaves it with     *)
(* scam_detected and hard_rule_triggered set and the stage at ACTION or    *)
(* CONFIRMED; and in every state hard_rule_triggered implies scam_detected *)
(* and a stage of ACTION or later.                                         *)
C5_HardRuleLatch ==
    /\ [](\A s \in Sessions :
            sessions[s].hard_rule_triggered
               => /\ sessions[s].scam_detected
                  /\ StageIndex(sessions[s].scam_stage)
                        >= StageIndex("ACTION"))
    /\ [][\A s \in Sessions :
            HardSignalLogged(sessions[s], sessions'[s])
               => /\ sessions'[s].scam_detected
                  /\ sessions'[s].hard_rule_triggered
                  /\ sessions'[s].scam_stage \in { "ACTION", "CONFIRMED" }]_vars

(* The first turn of a session matched a hard rule.                        *)
C5_Witness ==
    \E s \in Sessions :
        /\ sessions[s].turn_count = 1
        /\ HardSignalLogged(NewSession, sessions[s])
        /\ sessions[s].hard_rule_triggered
        /\ sessions[s].scam_stage = "ACTION"

(* C7: once a session's locked_language is set no step changes it, and     *)
(* the handler's detect-and-lock block runs at most once per session.      *)
C7_LanguageLockedOnce ==
    /\ [](\A s \in Sessions : sessions[s].lock_log <= 1)
    /\ [][\A s \in Sessions :
            sessions[s].locked_language # NoValue
               => /\ sessions'[s].locked_language
                        = sessions[s].locked_language
                  /\ sessions'[s].lock_log = sessions[s].lock_log]_vars

(* A session locked to English has since received a Hindi message.         *)
C7_Witness ==
    \E s \in Sessions :
        /\ sessions[s].locked_language = "english"
        /\ sessions[s].lock_log = 1
        /\ \E i \in 2..Len(sessions[s].conversation_turns) :
              /\ sessions[s].conversation_turns[i].who = "scammer"
              /\ sessions[s].conversation_turns[i].text
                    = "Aapka account block ho jayega, turant OTP bhejo"

IntelItems(st) ==
    st.upi_ids \cup st.bank_accounts \cup st.phone_numbers
        \cup st.phishing_links \cup st.suspicious_keywords

(* C8: every item of a session's intel has an extraction record that       *)
(* carries source = scammer.                                               *)
C8_EveryItemFromScammer ==
    \A s \in Sessions : \A v \in IntelItems(sessions[s]) :
        \E i \in 1..Len(extraction_history[s]) :
            /\ extraction_history[s][i].value = v
            /\ "source" \in DOMAIN extraction_history[s][i]
            /\ extraction_history[s][i].source = "scammer"

HeavyItems(st) ==
    st.upi_ids \cup st.bank_accounts \cup st.phone_numbers
        \cup st.phishing_links

(* C9: a session holds a UPI id, bank account, phone number or link only   *)
(* once its stage is THREAT, ACTION or CONFIRMED.                          *)
C9_HeavyOnlyFromThreat ==
    \A s \in Sessions :
        HeavyItems(sessions[s]) # {}
           => sessions[s].scam_stage \in { "THREAT", "ACTION", "CONFIRMED" }

GeneratorModes ==
    { "termination", "post_detection", "llm", "fallback",
      "exception_fallback" }

(* C10: every reply the reply generator hands to the caller, in each of    *)
(* its modes, is accepted by the Safety Validator.                         *)
C10_RepliesPassValidator ==
    out.mode \in GeneratorModes => is_safe(out.reply)

(* With a reply model configured, its outputs were rejected and the        *)
(* template fallback was returned.                                         *)
C10_Witness ==
    /\ env.llm
    /\ out.mode = "fallback"
    /\ is_safe(out.reply)

----------------------------------------------------------------------------
(* Properties of the turn coordinator and the report dispatcher.           *)

InFlight(s) == { r \in reqs : r.sid = s }

(* C11: for every session at most one turn is in flight: while a turn of   *)
(* the session is suspended in the judge call no second turn of that       *)
(* session is suspended there, and nothing but the return of that judge    *)
(* call changes the session.                                               *)
C11_OneTurnInFlight ==
    /\ [](\A s \in Sessions : Cardinality(InFlight(s)) <= 1)
    /\ [][\A s \in Sessions :
            (InFlight(s) # {} /\ sessions'[s] # sessions[s])
               => \E r \in InFlight(s) : r \notin reqs']_vars

(* The condition of C12, written from the claim.                           *)
MissionCondition(st) ==
    /\ st.scam_detected
    /\ \/ /\ \/ st.upi_ids # {}
             \/ st.bank_accounts # {}
             \/ (st.phone_numbers # {} /\ st.phishing_links # {})
          /\ \/ st.turn_count >= 5
             \/ Cardinality({ i \in 1..Len(st.triggered_signals) :
                   st.triggered_signals[i].signal_type \in
                       { "financial", "otp_request", "payment_request" } })
                  >= 3
       \/ st.turn_count >= 25

TasksOf(s) == { t \in tasks : t.sid = s }

Dispatched(s) == \E t \in tasks' : t.sid = s /\ t.attempt = 1 /\ t \notin tasks

(* C13: a step starts a dispatcher task for a session only when            *)
(* callback_sent was false and the mission check is true, and it leaves    *)
(* callback_sent true (the mission check is true only with scam_detected   *)
(* set, and the turn's verdict is never below the session's scam_detected);*)
(* at every instant a session has at most one dispatcher task, and has     *)
(* callback_sent set while it has one.                                     *)
C13_OneDispatcherPerSession ==
    /\ [](\A s \in Sessions :
            /\ Cardinality(TasksOf(s)) <= 1
            /\ TasksOf(s) # {} => sessions[s].callback_sent)
    /\ [][\A s \in Sessions :
            Dispatched(s)
               => /\ ~ sessions[s].callback_sent
                  /\ sessions'[s].callback_sent
                  /\ sessions'[s].scam_detected
                  /\ sessions'[s].mission_complete
                  /\ MissionCondition(sessions'[s])]_vars

(* Turns have kept arriving while the one dispatcher task is retrying.     *)
C13_Witness ==
    \E t \in tasks :
        /\ t.attempt > 1
        /\ sessions[t.sid].turn_count > t.total + 1
        /\ TasksOf(t.sid) = { t }

(* C14: a dispatcher task is at its first, second or third POST; a task    *)
(* comes to POST k+1 only by the failure of its POST k; a report that got  *)
(* HTTP 200 has no task left to POST it again; and every task ends.        *)
C14_AtMostThreeAttempts ==
    /\ [](\A t \in tasks :
            /\ t.attempt \in 1..3
            /\ [ sid |-> t.sid, total |-> t.total ] \notin delivered)
    /\ [][\A t \in tasks' \ tasks :
            \/ t.attempt = 1
            \/ /\ [ t EXCEPT !.attempt = @ - 1 ] \in tasks \ tasks'
               /\ delivered' = delivered]_vars
    /\ \A s \in Sessions : (TasksOf(s) # {}) ~> (TasksOf(s) = {})

(* A task is at its third POST after two failures.                         *)
C14_Witness ==
    \E t \in tasks : t.attempt = MAX_RETRIES /\ delivered = {}

(* A step in which a turn of session s runs to its response.               *)
TurnEnded(s) ==
    \/ remaining' # remaining /\ reqs' = reqs /\ out'.sid = s
    \/ \E r \in InFlight(s) : r \notin reqs'

Exhausted(t) ==
    t.attempt = 3 /\ t \notin tasks' /\ delivered' = delivered

(* C15: the failure of a task's third POST clears callback_sent and        *)
(* changes nothing else of the session; callback_sent goes from true to    *)
(* false in no other step; and in a session left with mission_complete set *)
(* and callback_sent clear (its scam_detected is set, so the verdict of    *)
(* the turn is scamDetected) the next turn that runs to its response       *)
(* without an exception starts a dispatcher task and sets callback_sent    *)
(* again.                                                                  *)
C15_RearmAfterExhaustion ==
    /\ [][\A t \in tasks :
            Exhausted(t)
               => sessions' = [ sessions EXCEPT
                                  ![t.sid].callback_sent = FALSE ]]_vars
    /\ [][\A s \in Sessions :
            (sessions[s].callback_sent /\ ~ sessions'[s].callback_sent)
               => \E t \in TasksOf(s) : Exhausted(t)]_vars
    /\ [][\A s \in Sessions :
            (sessions[s].mission_complete /\ ~ sessions[s].callback_sent
               /\ TurnEnded(s) /\ out'.status = "success")
               => /\ sessions[s].scam_detected
                  /\ mission_complete_result(sessions'[s])
                  /\ Dispatched(s)
                  /\ sessions'[s].callback_sent]_vars

(* In the long conversation a second dispatcher task has been started      *)
(* after the first one, started by the fifth turn at the latest, failed    *)
(* three times.                                                            *)
C15_Witness ==
    /\ env.script = LongScript
    /\ delivered = {}
    /\ \E t \in tasks : t.attempt = 1 /\ t.total > MIN_TURNS

DeliveredOf(s) == { r \in delivered : r.sid = s }

(* C16: a step that delivers a report changes no session; a session with   *)
(* a delivered report has callback_sent set and no dispatcher task, in     *)
(* every later state, and no step starts a task for it; a session has at   *)
(* most one delivered report.                                              *)
C16_DeliveryIsFinal ==
    /\ [][delivered' # delivered
            => /\ sessions' = sessions
               /\ extraction_history' = extraction_history
               /\ turn_counter' = turn_counter]_vars
    /\ [](\A s \in Sessions :
            DeliveredOf(s) # {}
               => /\ sessions[s].callback_sent
                  /\ TasksOf(s) = {}
                  /\ Cardinality(DeliveredOf(s)) = 1)
    /\ [][\A s \in Sessions : DeliveredOf(s) # {} => ~ Dispatched(s)]_vars

(* Turns with a scamDetected verdict have ended after the session's report *)
(* was delivered.                                                          *)
C16_Witness ==
    \E r \in delivered :
        /\ sessions[r.sid].turn_count > r.total + 1
        /\ sessions[r.sid].scam_detected
        /\ out.sid = r.sid
        /\ out.status = "success"

(* C17: the step that starts a dispatcher task is the step in which the    *)
(* turn returns its response, with status "success" and before any POST    *)
(* of the task has been answered; the task is then pending at its first    *)
(* POST; and no step of a dispatcher task, whether its POST succeeds or    *)
(* fails, changes a response, a suspended turn or the turns left.          *)
C17_DispatchNeverBlocks ==
    /\ [][\A s \in Sessions :
            Dispatched(s)
               => /\ TurnEnded(s)
                  /\ out'.sid = s
                  /\ out'.status = "success"
                  /\ out'.mode \in GeneratorModes
                  /\ delivered' = delivered
                  /\ \E t \in TasksOf(s)' : t.attempt = 1]_vars
    /\ [][(\E t \in tasks : t \notin tasks')
            => /\ out' = out
               /\ reqs' = reqs
               /\ remaining' = remaining]_vars

(* The response of the dispatching turn is out while the task has not yet  *)
(* finished its first POST.                                                *)
C17_Witness ==
    \E t \in tasks :
        /\ t.attempt = 1
        /\ out.sid = t.sid
        /\ out.status = "success"
        /\ sessions[t.sid].turn_count = t.total
        /\ delivered = {}

(* C18: in a session that has had a turn, whatever conversationHistory a   *)
(* request carries, the detector is handed the empty history and returns   *)
(* what it returns for a request without history, session included; and    *)
(* the history a suspended turn passed on is the request's on a first      *)
(* turn and empty on a later one.                                          *)
C18_HistoryOnlyOnFirstTurn ==
    /\ \A s \in Sessions, conversationHistory \in Histories :
          sessions[s].turn_count > 0
             => /\ effective_history(sessions[s], conversationHistory) = << >>
                /\ \A message \in env.script :
                      detect_until_judge(
                          language_lock(sessions[s], message), message,
                          effective_history(sessions[s], conversationHistory))
                      = detect_until_judge(
                          language_lock(sessions[s], message), message,
                          << >>)
    /\ \A r \in reqs :
          r.history_texts = IF r.turn_number = 1 THEN r.conversationHistory
                            ELSE << >>

(* A later turn whose request carried a history is suspended in the judge  *)
(* call, and the history of the session's first request was used: the ML   *)
(* signal of turn 1 has the score no message of the script gets alone.     *)
C18_Witness ==
    \E r \in reqs :
        /\ r.turn_number > 1
        /\ r.conversationHistory # << >>
        /\ r.history_texts = << >>
        /\ \E i \in 1..Len(sessions[r.sid].triggered_signals) :
              /\ sessions[r.sid].triggered_signals[i].signal_type = "ml_detection"
              /\ sessions[r.sid].triggered_signals[i].turn_number = 1
              /\ sessions[r.sid].triggered_signals[i].score = 25

(* C19: a response with status "error" carries exactly the generic reply   *)
(* and nothing of the reply generator; the text of no exception is ever a  *)
(* reply; and a step in which a turn ends leaves the response of that turn *)
(* with status "success", or with status "error" when a step raised.       *)
C19_ErrorsAreGeneric ==
    /\ [](out.status = "error"
            => /\ out.reply
                    = "I'm having trouble understanding. Could you repeat that?"
               /\ out.mode = NoValue
               /\ out.sid \in Sessions)
    /\ [](\A e \in Exceptions : out.reply # e.text)
    /\ [][\A s \in Sessions :
            TurnEnded(s)
               => /\ out'.sid = s
                  /\ out'.status \in { "success", "error" }
                  /\ out'.status = "success" => out'.mode \in GeneratorModes]_vars

(* The report construction raised: callback_sent is set, no dispatcher     *)
(* task was created, and the turn was answered with status "error".        *)
C19_Witness ==
    /\ out.status = "error"
    /\ out.reply = GENERIC_ERROR_REPLY
    /\ sessions[out.sid].callback_sent
    /\ TasksOf(out.sid) = {}
    /\ DeliveredOf(out.sid) = {}

(* The templates _get_fallback_response_language draws from in a language. *)
TemplateReplies(language) ==
    Range(language_templates[language].confusion)
      \cup Range(language_templates[language].followup)
      \cup Range(language_templates[language].stalling)

(* What judge() can return for a suspended turn: a parsed answer of the    *)
(* remote judge, or the fallback judgement on the turn's signals.          *)
JudgementsFor(r) ==
    { fallback_judgement(r.turn_number, r.signals) }
      \cup { judge_result(r.turn_number, r.signals, answer) :
               answer \in RemoteAnswers }

----------------------------------------------------------------------------
(* Properties of the detector's decisions and of the reply modes.          *)

(* C21: after a first turn whose message is the plain greeting, which      *)
(* fires no rule and no ML signal, the session has risk score 0, stage     *)
(* NORMAL, scam_detected false and no intel.                               *)
C21_BenignGreetingStaysNormal ==
    \A s \in Sessions :
        (/\ sessions[s].turn_count = 1
         /\ out.sid = s
         /\ out.status = "success"
         /\ Len(sessions[s].conversation_turns) >= 1
         /\ sessions[s].conversation_turns[1].who = "scammer"
         /\ sessions[s].conversation_turns[1].text = "Hi, how are you today?"
         /\ sessions[s].triggered_signals = << >>)
           => /\ sessions[s].risk_score = 0
              /\ sessions[s].scam_stage = "NORMAL"
              /\ ~ sessions[s].scam_detected
              /\ IntelItems(sessions[s]) = {}

(* C22: the verdict a call of detect returns equals the session's          *)
(* scam_detected after the call, and once a call has returned true for a   *)
(* session the next call for that session returns true.                    *)
C22_VerdictIsLatch ==
    /\ [](out.status = "detect"
            => out.reply = sessions[out.sid].scam_detected)
    /\ [][(/\ out.status = "detect"
           /\ out.reply = TRUE
           /\ remaining' # remaining
           /\ out'.sid = out.sid)
             => out'.reply = TRUE]_vars

(* C23: a call of detect invokes the judge exactly when the score after    *)
(* the turn's rule and ML signals is at least 20, or two stage patterns    *)
(* matched, or a hard rule fired; when it invokes, one judgement is        *)
(* appended to the session's judgements and the verdict is the decision    *)
(* on the session with that judgement applied; when it does not, the       *)
(* judgements are unchanged.                                               *)
C23_JudgeGate ==
    /\ [](out.status = "detect"
            => (out.mode.invoke
                  <=> \/ out.mode.risk_at_gate >= 20
                      \/ Len(out.mode.patterns) >= 2
                      \/ out.mode.hard_rule_triggered))
    /\ [][remaining' # remaining
            => /\ out'.mode.risk_at_gate
                    = Min(100, sessions[out'.sid].risk_score
                         + SumScores(sessions'[out'.sid].triggered_signals)
                         - SumScores(sessions[out'.sid].triggered_signals))
               /\ IF out'.mode.invoke
                  THEN /\ out'.mode.judgement # NoJudgement
                       /\ sessions'[out'.sid].llm_judgements
                            = Append(sessions[out'.sid].llm_judgements,
                                     out'.mode.judgement)
                       /\ sessions'[out'.sid].risk_score
                            = Min(100, out'.mode.risk_at_gate
                                 + out'.mode.judgement.risk_boost)
                  ELSE /\ out'.mode.judgement = NoJudgement
                       /\ sessions'[out'.sid].llm_judgements
                            = sessions[out'.sid].llm_judgements
                       /\ sessions'[out'.sid].risk_score
                            = out'.mode.risk_at_gate
               /\ out'.reply
                    = make_decision(sessions'[out'.sid],
                                    out'.mode.hard_rule_triggered,
                                    out'.mode.ml_is_scam,
                                    out'.mode.judgement)]_vars

(* The second call for a session invoked the judge on two stage patterns   *)
(* alone, the first did not invoke it, and one judgement is logged.        *)
C23_Witness ==
    /\ out.status = "detect"
    /\ out.mode.invoke
    /\ out.mode.risk_at_gate < 20
    /\ ~ out.mode.hard_rule_triggered
    /\ sessions[out.sid].turn_count = 2
    /\ sessions[out.sid].llm_judgements = << out.mode.judgement >>

(* What detection and extraction keep of a session.                        *)
DetectionState(s) ==
    [ risk_score |-> sessions[s].risk_score,
      scam_stage |-> sessions[s].scam_stage,
      stage_history |-> sessions[s].stage_history,
      scam_detected |-> sessions[s].scam_detected,
      hard_rule_triggered |-> sessions[s].hard_rule_triggered,
      turn_count |-> sessions[s].turn_count,
      triggered_signals |-> sessions[s].triggered_signals,
      llm_judgements |-> sessions[s].llm_judgements,
      intel |-> intel_of(sessions[s]),
      extraction_history |-> extraction_history[s],
      turn_counter |-> turn_counter[s] ]

PoolBlocked(st, language) ==
    \A q \in Range(natural_questions[language]) :
        is_question_blocked(st, q, extract_intent_from_response(q))

(* C26: a post-detection reply chosen while every natural question of the  *)
(* locked language is blocked is the bare acknowledgment, "Phir?" in       *)
(* hindi and "Then?" in english.                                           *)
C26_BlockedPoolGivesMinimalAck ==
    [][\A s \in Sessions :
          ( /\ TurnEnded(s)
            /\ out'.status = "success"
            /\ out'.mode = "post_detection"
            /\ PoolBlocked(sessions[s], sessions'[s].locked_language) )
          => out'.reply = IF sessions'[s].locked_language = "hindi"
                          THEN "Phir?" ELSE "Then?"]_vars

(* C27: a request that finds the session's language unset and names a      *)
(* language in its metadata locks the session to that language.            *)
C27_MetadataLanguageWins ==
    [][\A s \in Sessions :
          ( /\ out'.sid = s
            /\ out'.status = "success"
            /\ sessions[s].locked_language = NoValue
            /\ out'.mode.language # NoValue )
          => sessions'[s].locked_language = out'.mode.language]_vars

(* Everything the service holds for a session.                             *)
Owned(s) ==
    << sessions[s], extraction_history[s], turn_counter[s] >>

(* The step is a turn of session s (begun, resumed, ended or failed) or a  *)
(* dispatcher task of s.                                                   *)
ActsFor(s) ==
    \/ TurnEnded(s)
    \/ \E r \in reqs' \ reqs : r.sid = s
    \/ \E t \in tasks \ tasks' : t.sid = s

(* C28: a turn or a dispatcher task of one session leaves every other      *)
(* session as it was: its risk score, stage, latches, turn count, signal   *)
(* and judgement histories, intel sets, conversation, extraction history   *)
(* and callback flag; so nothing recorded for the acting session is added  *)
(* to another one.                                                         *)
C28_SessionsIsolated ==
    [][\A a \in Sessions : \A b \in Sessions \ { a } :
          ActsFor(a) =>
             /\ Owned(b)' = Owned(b)
             /\ { t \in tasks' : t.sid = b } = { t \in tasks : t.sid = b }
             /\ DeliveredOf(b)' = DeliveredOf(b)]_vars

(* Both sessions have had a turn, the last one a turn of s2; s1 holds       *)
(* signals and extraction records while s2 holds none.                     *)
C28_Witness ==
    /\ sessions["s1"].turn_count >= 1
    /\ sessions["s2"].turn_count >= 1
    /\ sessions["s1"].triggered_signals # << >>
    /\ extraction_history["s1"] # << >>
    /\ sessions["s2"].triggered_signals = << >>
    /\ extraction_history["s2"] = << >>
    /\ sessions["s2"].risk_score = 0
    /\ out.sid = "s2"

(* C29: every judgement applied to a session has a boost of 0 to 30 and a  *)
(* confidence of 0 to 1 (0 to 1000 thousandths), and the confidence the    *)
(* detector returns is within 0 to 1.                                      *)
C29_JudgementsInRange ==
    /\ \A s \in Sessions :
          \A i \in DOMAIN sessions[s].llm_judgements :
             /\ sessions[s].llm_judgements[i].risk_boost \in 0..RISK_BOOST_MAX
             /\ sessions[s].llm_judgements[i].confidence \in 0..1000
    /\ out.status = "detect" => out.mode.confidence \in 0..1000

(* The stage the score thresholds give a session at `stage` whose score    *)
(* has become `risk`.                                                      *)
StageByScore(stage, risk) ==
    IF risk >= THRESHOLD_CONFIRMED THEN "CONFIRMED"
    ELSE IF risk >= THRESHOLD_THREAT
            /\ stage \notin { "THREAT", "ACTION", "CONFIRMED" } THEN "THREAT"
    ELSE IF risk >= THRESHOLD_SUSPICIOUS /\ stage = "NORMAL" THEN "HOOK"
    ELSE stage

(* The step applies judgement j to session s.                              *)
Applies(s, j) ==
    sessions'[s].llm_judgements = Append(sessions[s].llm_judgements, j)

(* C30: applying a judgement adds its boost to the score, clamped at 100;  *)
(* the stage becomes the suggested one exactly when the confidence is at   *)
(* least 0.7 and the suggestion is later than the stage the score          *)
(* thresholds give, and is that threshold stage otherwise; scam_detected   *)
(* holds afterwards exactly when it held before, or the judgement says     *)
(* scam with confidence of at least 0.85, or the score is 70 or more.      *)
C30_JudgementApplied ==
    [][\A s \in Sessions : \A j \in EngineJudgements(sessions[s].turn_count) :
          Applies(s, j) =>
            LET risk == Min(sessions[s].risk_score + j.risk_boost, RISK_MAX)
                byScore == StageByScore(sessions[s].scam_stage, risk)
                follows == /\ j.stage_suggestion # NoValue
                           /\ j.confidence >= 700
                           /\ StageIndex(j.stage_suggestion)
                                > StageIndex(byScore)
            IN  /\ sessions'[s].risk_score = risk
                /\ sessions'[s].scam_stage =
                     IF follows THEN j.stage_suggestion ELSE byScore
                /\ j.confidence < 700 => sessions'[s].scam_stage = byScore
                /\ sessions'[s].scam_detected <=>
                     \/ sessions[s].scam_detected
                     \/ j.is_scam_likely /\ j.confidence >= 850
                     \/ risk >= THRESHOLD_CONFIRMED
                /\ sessions'[s].hard_rule_triggered
                     = sessions[s].hard_rule_triggered]_vars

(* A judgement of confidence 0.9 suggesting THREAT was applied below the   *)
(* score of 50: the session is at THREAT and detected with no hard rule,   *)
(* after a judgement of confidence 0.6 that suggested ACTION.              *)
C30_Witness ==
    /\ Len(sessions["s1"].llm_judgements) >= 2
    /\ sessions["s1"].llm_judgements[1].confidence = 600
    /\ sessions["s1"].llm_judgements[1].stage_suggestion = "ACTION"
    /\ sessions["s1"].llm_judgements[
           Len(sessions["s1"].llm_judgements)] =
         Judgement(sessions["s1"].turn_count, TRUE, 900, 0, "THREAT")
    /\ sessions["s1"].scam_stage = "THREAT"
    /\ sessions["s1"].scam_detected
    /\ ~ sessions["s1"].hard_rule_triggered
    /\ sessions["s1"].risk_score < THRESHOLD_THREAT

----------------------------------------------------------------------------
(* Properties of the reply generator's records, the histories' order and   *)
(* the report.                                                             *)

(* The question's intent was asked twice or its text is in the ring.       *)
BlockedFor(st, q) ==
    \/ st.asked_questions[extract_intent_from_response(q)] >= 2
    \/ \E i \in 1..Len(st.recent_questions) : st.recent_questions[i] = q

(* C31: a post-detection reply taken from the natural questions of the     *)
(* locked language is not blocked when it is chosen, and every question    *)
(* before it in the pool is; while some question of the pool is not        *)
(* blocked the reply is a question of the pool.                            *)
C31_NoBlockedQuestion ==
    [][\A s \in Sessions :
          ( /\ TurnEnded(s)
            /\ out'.status = "success"
            /\ out'.mode = "post_detection" )
          => LET pool == natural_questions[sessions'[s].locked_language]
             IN  /\ \A i \in 1..Len(pool) :
                       pool[i] = out'.reply =>
                          /\ ~ BlockedFor(sessions[s], pool[i])
                          /\ \A j \in 1..(i - 1) :
                                BlockedFor(sessions[s], pool[j])
                 /\ (\E i \in 1..Len(pool) : ~ BlockedFor(sessions[s], pool[i]))
                       => out'.reply \in Range(pool)]_vars

(* The reply is the third question of the pool: the first two are in the   *)
(* ring and share an intent asked twice.                                   *)
C31_Witness ==
    /\ out.status = "success"
    /\ out.mode = "post_detection"
    /\ out.reply = natural_questions[sessions[out.sid].locked_language][3]
    /\ Len(sessions[out.sid].recent_questions) = 3
    /\ \E intent \in DOMAIN sessions[out.sid].asked_questions :
          sessions[out.sid].asked_questions[intent] >= 2

(* C32: a turn that returns a reply appends to the conversation exactly    *)
(* the inbound message as a scammer turn and then the reply as an agent    *)
(* turn.                                                                   *)
C32_ReplyIsRecorded ==
    [][\A s \in Sessions :
          (TurnEnded(s) /\ out'.status = "success")
          => LET before == sessions[s].conversation_turns
                 after  == sessions'[s].conversation_turns
             IN  /\ Len(after) = Len(before) + 2
                 /\ SubSeq(after, 1, Len(before)) = before
                 /\ after[Len(before) + 1].who = "scammer"
                 /\ after[Len(before) + 2].who = "agent"
                 /\ after[Len(before) + 2].text = out'.reply]_vars

(* C33: in every session the signals and the judgements are logged in      *)
(* non-decreasing order of their turn numbers, none beyond the session's   *)
(* turn count, and the stage history is in non-decreasing order of the     *)
(* turn counts it records.                                                 *)
C33_HistoriesInTurnOrder ==
    \A s \in Sessions :
       /\ \A i, j \in DOMAIN sessions[s].triggered_signals :
             i < j => sessions[s].triggered_signals[i].turn_number
                        <= sessions[s].triggered_signals[j].turn_number
       /\ \A i, j \in DOMAIN sessions[s].llm_judgements :
             i < j => sessions[s].llm_judgements[i].turn_number
                        <= sessions[s].llm_judgements[j].turn_number
       /\ \A i, j \in DOMAIN sessions[s].stage_history :
             i < j => sessions[s].stage_history[i][2]
                        <= sessions[s].stage_history[j][2]
       /\ \A i \in DOMAIN sessions[s].triggered_signals :
             sessions[s].triggered_signals[i].turn_number
                <= sessions[s].turn_count
       /\ \A i \in DOMAIN sessions[s].llm_judgements :
             sessions[s].llm_judgements[i].turn_number
                <= sessions[s].turn_count

(* The candidate the stub's answer gives: its first sentence.              *)
Candidate(answer) == answer[1]

(* C34: in pre-detection mode the generator calls the reply model at most  *)
(* twice; the reply is the first candidate when the validator accepts it,  *)
(* the second when it rejects the first and accepts the second, and a      *)
(* literal template when it rejects both; a rejected candidate is never    *)
(* the reply.  Each such outcome is one generate_response can produce.     *)
C34_RejectedNeverEmitted ==
    ( /\ out.status = "reply"
      /\ out.mode.mode \in { "llm", "fallback", "exception_fallback" } )
    => LET a == out.mode.answers
           lang == sessions[out.sid].locked_language
           templates == Range(language_templates[lang].confusion)
       IN  /\ out.mode.calls \in 1..MAX_ATTEMPTS
           /\ out.mode.known
           /\ is_safe(out.reply)
           /\ out.reply \notin FORBIDDEN_PATTERNS
           /\ (a[1] # LLMFailed /\ is_safe(Candidate(a[1])))
                 => /\ out.reply = Candidate(a[1])
                    /\ out.mode.calls = 1
           /\ ( /\ a[1] # LLMFailed /\ ~ is_safe(Candidate(a[1]))
                /\ a[2] # LLMFailed /\ is_safe(Candidate(a[2])) )
                 => /\ out.reply = Candidate(a[2])
                    /\ out.mode.calls = 2
           /\ ( /\ a[1] # LLMFailed /\ ~ is_safe(Candidate(a[1]))
                /\ a[2] # LLMFailed /\ ~ is_safe(Candidate(a[2])) )
                 => /\ out.mode.mode = "fallback"
                    /\ out.reply \in templates
                    /\ out.mode.calls = 2

(* The stub answered "My OTP is 987654" and then "I am from CBI": two      *)
(* calls were made and the reply is a template.                            *)
C34_Witness ==
    /\ out.status = "reply"
    /\ out.mode.mode = "fallback"
    /\ out.mode.calls = 2
    /\ out.mode.answers = << << "My OTP is 987654" >>, << "I am from CBI" >> >>
    /\ out.reply \in Range(language_templates[
                         sessions[out.sid].locked_language].confusion)

(* C35: a step that logs one hard-rule signal of score s in a session of   *)
(* risk r leaves the risk at min(100, r + s): the score is added once.     *)
C35_HardScoreAddedOnce ==
    [][\A s \in Sessions :
          \A sig \in EngineSignals(sessions[s].turn_count) :
             ( /\ sig.is_hard_rule
               /\ sessions'[s].triggered_signals =
                     Append(sessions[s].triggered_signals, sig) )
             => sessions'[s].risk_score =
                   IF sessions[s].risk_score + sig.score <= 100
                   THEN sessions[s].risk_score + sig.score ELSE 100]_vars

(* One hard-rule signal of score 35 was logged on a session of risk 30:    *)
(* the risk is 65.                                                         *)
C35_Witness ==
    /\ Len(sessions["s1"].triggered_signals) = 1
    /\ sessions["s1"].triggered_signals[1].is_hard_rule
    /\ sessions["s1"].triggered_signals[1].score = 35
    /\ sessions["s1"].llm_judgements = << >>
    /\ sessions["s1"].risk_score = 65
    /\ sessions["s1"].hard_rule_triggered

(* C36: in every state a session whose report is marked as sent has its    *)
(* mission complete and its scam_detected flag set.                        *)
C36_SentImpliesComplete ==
    \A s \in Sessions :
        sessions[s].callback_sent
           => sessions[s].mission_complete /\ sessions[s].scam_detected

(* A report of the session is in flight: the flag is set, the mission is   *)
(* complete and the scam detected.                                         *)
C36_Witness ==
    \E t \in tasks :
        /\ sessions[t.sid].callback_sent
        /\ sessions[t.sid].mission_complete
        /\ sessions[t.sid].scam_detected
        /\ sessions[t.sid].turn_count >= 3

(* The five intel sets of a session.                                       *)
IntelSets(st) ==
    << st.upi_ids, st.bank_accounts, st.phone_numbers, st.phishing_links,
       st.suspicious_keywords >>

(* C37: no step removes a value from an intel set of a session.            *)
C37_IntelOnlyGrows ==
    [][\A s \in Sessions : \A k \in 1..5 :
          IntelSets(sessions[s])[k] \subseteq IntelSets(sessions'[s])[k]]_vars

(* A turn of the session is suspended in the judge call while a later      *)
(* turn has finished and left a UPI id in the session.                     *)
C37_Witness ==
    \E r \in reqs :
        /\ r.turn_number < sessions[r.sid].turn_count
        /\ sessions[r.sid].upi_ids # {}
        /\ sessions[r.sid].suspicious_keywords # {}
        /\ out.sid = r.sid
        /\ out.status = "success"

(* The turn number of the turn of s that this step finishes: the one the   *)
(* resumed request took, or the turn count of a turn run in one step.      *)
FinishedTurnNumber(s) ==
    IF \E r \in InFlight(s) : r \notin reqs'
    THEN (CHOOSE r \in InFlight(s) : r \notin reqs').turn_number
    ELSE sessions'[s].turn_count

(* C38: every extraction item a turn appends to the session's extraction   *)
(* history records the turn number of that turn.                           *)
C38_ItemTurnIsTurnCount ==
    [][\A s \in Sessions :
          \A i \in (Len(extraction_history[s]) + 1)
                      ..Len(extraction_history'[s]) :
             extraction_history'[s][i].source_turn = FinishedTurnNumber(s)]_vars

(* C39: in every state a session at stage CONFIRMED has scam_detected set. *)
C39_ConfirmedImpliesDetected ==
    \A s \in Sessions :
        sessions[s].scam_stage = "CONFIRMED" => sessions[s].scam_detected

(* C40: if the session goes on receiving its turns (all DeliveryTurns of   *)
(* them arrive), then once the endpoint answers every POST with 200, a     *)
(* session whose mission is complete and that still has a turn to come     *)
(* gets a report delivered, whatever dispatches were given up before.      *)
C40_EventuallyDelivered ==
    <>(remaining = 0) =>
        ((/\ sessions["s1"].mission_complete
          /\ env.endpoint = "up"
          /\ remaining > 0) ~> (DeliveredOf("s1") # {}))

(* A report is delivered by a dispatch made after turn 5, when an earlier  *)
(* dispatch had been given up and the endpoint has recovered.              *)
C40_Witness ==
    /\ env.endpoint = "up"
    /\ \E d \in delivered : d.sid = "s1" /\ d.total > MIN_TURNS

====
